---- MODULE Spec2Model ----
(***************************************************************************)
(* Model of the "Backup Long-Open Tabs" extension: the background script   *)
(* (tab tracker, reconciliation pass, automatic-backup alarm, settings     *)
(* messages), the dashboard's direct writes to the persisted tabData, and  *)
(* the options page's settings save.                                       *)
(*                                                                         *)
(* Time is counted in minutes instead of milliseconds; every duration of   *)
(* the source is scaled by the same factor, so comparisons are unchanged.  *)
(* A handler runs without interruption between two awaits; each action     *)
(* below is one such uninterrupted stretch.  A host call takes effect when *)
(* it is issued and its promise is settled in a later step.                *)
(***************************************************************************)
EXTENDS Integers, Sequences, FiniteSets, TLC

VARIABLES
  now,                  \* Date.now(), in minutes
  tabs,                 \* host: open tabs, tab id -> tabs.Tab
  currentSettings,      \* background: let currentSettings
  tabData,              \* background: let tabData (in memory)
  lastAutomaticBackup,  \* background: let lastAutomaticBackup
  storage,              \* host: browser.storage.local
  alarms,               \* host: browser.alarms registry
  tasks,                \* background handlers suspended at an await
  response,             \* last value given to sendResponse
  dash,                 \* dashboard page (tabs.js) state
  opts,                 \* options page (options.js) saveSettings state
  listening,            \* background: initialize has added its listeners
  removed,              \* record ids removed through the dashboard and not
                        \* observed as qualifying since (history)
  ui                    \* what the pages hold and show: the options form,
                        \* the dashboard's settings, the popup's message

vars == <<now, tabs, currentSettings, tabData, lastAutomaticBackup, storage,
          alarms, tasks, response, dash, opts, listening, removed,
         ui>>

----------------------------------------------------------------------------
(* Bounds of the model *)

MaxTabId == 2      \* tab identifiers are 1..MaxTabId
MaxTasks == 2      \* background handlers suspended at the same time
MaxDay == 11       \* the clock stops at the end of day MaxDay
MaxDashIds == 1    \* identifiers the dashboard can generate

(* Durations, in minutes *)
HourMs == 60
DayMs == 24 * HourMs

NULL == -1         \* JavaScript null / undefined for a timestamp
Truthy(t) == t # NULL /\ t # 0

TabIds == 1..MaxTabId
Slots == 1..MaxTasks
DashIdBase == 100
DashIds == (DashIdBase + 1)..(DashIdBase + MaxDashIds)

----------------------------------------------------------------------------
(* Plain objects *)

(* a spread in which the first object wins *)
Merge_FirstWins(a, b) ==
  [k \in DOMAIN a \cup DOMAIN b |-> IF k \in DOMAIN a THEN a[k] ELSE b[k]]

(* { ...a, ...b } *)
Merge(a, b) ==
  [k \in DOMAIN a \cup DOMAIN b |-> IF k \in DOMAIN b THEN b[k] ELSE a[k]]

Put(f, k, v) == [x \in DOMAIN f \cup {k} |-> IF x = k THEN v ELSE f[x]]

Del(f, k) == [x \in DOMAIN f \ {k} |-> f[x]]

Has(f, k) == k \in DOMAIN f

EmptyObj == <<>>

(* A URL is <<scheme, host, path>>; the empty string is <<>> *)
StartsWithHttp(url) == url # <<>> /\ url[1] \in {"http", "https"}

ExampleUrl == <<"https", "example.com", "/">>
OtherUrl == <<"http", "other.org", "/">>
AboutUrl == <<"about", "", "blank">>

ExampleTitle == <<"E", "x", "a", "m", "p", "l", "e">>
OtherTitle == <<"O", "t">>

Truncate(title, maxTitleLength) ==
  IF Len(title) > maxTitleLength
    THEN SubSeq(title, 1, maxTitleLength) \o <<".", ".", ".">>
    ELSE title

----------------------------------------------------------------------------
(* Settings *)

DEFAULT_SETTINGS ==
  [minDays |-> 7, maxTabs |-> 1000, autoBackupEnabled |-> FALSE,
   backupTime |-> <<5, 0>>, backupDays |-> {"Mon"}, toleranceHours |-> 12,
   excludePrivate |-> TRUE, excludePinned |-> FALSE, maxTitleLength |-> 100,
   theme |-> "auto"]

DaysOfWeek == <<"Sun", "Mon", "Tue", "Wed", "Thu", "Fri", "Sat">>

(* new Date().getDay(): day 0 of the clock is a Thursday *)
Today(t) == DaysOfWeek[(((t \div DayMs) + 4) % 7) + 1]

----------------------------------------------------------------------------
(* Suspended background handlers *)

Idle ==
  [kind |-> "idle", pc |-> "none", now |-> 0, snap |-> <<>>, count |-> 0,
   ok |-> TRUE, from |-> "none"]

FreeSlots == {s \in Slots : tasks[s].kind = "idle"}

Busy == \E s \in Slots : tasks[s].kind # "idle"

NoResponse == [type |-> "none"]

(* no page has loaded anything yet; currentTabCount, currentFilter and    *)
(* currentSort have their initial values                                  *)
NoUi ==
  [form |-> <<>>, settings |-> <<>>, entered |-> <<>>, before |-> <<>>,
   popup |-> "closed", currentTabCount |-> 0, got |-> NoResponse,
   message |-> <<>>, currentFilter |-> <<>>,
   currentSort |-> [key |-> "createdAt", dir |-> "desc"], exported |-> <<>>,
   event |-> <<>>, asked |-> "",
   other |-> [pc |-> "idle", rows |-> <<>>, checked |-> {}, data |-> <<>>,
              gone |-> {}]]

----------------------------------------------------------------------------
(* Host: time and tabs *)

Tick(d) ==
  /\ now + d <= MaxDay * DayMs
  /\ now' = now + d
  /\ UNCHANGED <<tabs, currentSettings, tabData, lastAutomaticBackup, storage,
                 alarms, tasks, response, dash, opts, removed, listening,
                 ui>>

NewTab(id, url, title, pinned, incognito, fav) ==
  [id |-> id, url |-> url, title |-> title, incognito |-> incognito,
   pinned |-> pinned, createdAt |-> now, lastAccessed |-> now,
   favIconUrl |-> fav]

OpenTab(id, url, title, pinned, incognito, fav) ==
  /\ ~Has(tabs, id)
  /\ tabs' = Put(tabs, id, NewTab(id, url, title, pinned, incognito, fav))
  /\ UNCHANGED <<now, currentSettings, tabData, lastAutomaticBackup, storage,
                 alarms, tasks, response, dash, opts, removed, listening,
                 ui>>

Navigate(id, url, title) ==
  /\ Has(tabs, id)
  /\ tabs' = [tabs EXCEPT ![id].url = url, ![id].title = title]
  /\ UNCHANGED <<now, currentSettings, tabData, lastAutomaticBackup, storage,
                 alarms, tasks, response, dash, opts, removed, listening,
                 ui>>

----------------------------------------------------------------------------
(* Background: saveTabData, tracker *)

(* a saveTabData that issues no write *)
SaveTabData_NoWrite(td, ok) == storage

(* browser.storage.local.set({ tabData }): ok is the host's outcome *)
SaveTabData(td, ok) ==
  IF ok THEN [storage EXCEPT !.tabData = td] ELSE storage

TitleOf(tab, s) == Truncate(tab.title, s.maxTitleLength)

TrackerRecord(tab, s, t) ==
  [title |-> TitleOf(tab, s), url |-> tab.url, createdAt |-> tab.createdAt,
   lastUpdated |-> t]

(* tabAgeDays >= currentSettings.minDays *)
TrackerAgeOk(tab, s, t) == (t - tab.createdAt) >= s.minDays * DayMs

(* the event's status is not looked at *)
TrackerQualifies_AnyStatus(status, tab, s, t) ==
  /\ tab.url # <<>>
  /\ ~(s.excludePrivate /\ tab.incognito)
  /\ ~(s.excludePinned /\ tab.pinned)
  /\ StartsWithHttp(tab.url)
  /\ TrackerAgeOk(tab, s, t)

TrackerQualifies(status, tab, s, t) ==
  /\ status = "complete"
  /\ tab.url # <<>>
  /\ ~(s.excludePrivate /\ tab.incognito)
  /\ ~(s.excludePinned /\ tab.pinned)
  /\ StartsWithHttp(tab.url)
  /\ TrackerAgeOk(tab, s, t)

(* handleTabUpdate: what it does to the map and to the store *)
TrackTab(tabId, status, ok) ==
  /\ listening
  /\ Has(tabs, tabId)
  /\ IF TrackerQualifies(status, tabs[tabId], currentSettings, now)
       THEN /\ tabData' = Put(tabData, tabId,
                              TrackerRecord(tabs[tabId], currentSettings, now))
            /\ storage' = SaveTabData(tabData', ok)
            /\ removed' = removed \ {tabId}
       ELSE UNCHANGED <<tabData, storage, removed>>

HandleTabUpdate(tabId, status, ok) ==
  /\ TrackTab(tabId, status, ok)
  /\ UNCHANGED <<now, tabs, currentSettings, lastAutomaticBackup, alarms,
                 tasks, response, dash, opts, listening, ui>>

(* The host closes the tab and delivers tabs.onRemoved *)
HandleTabRemoved(tabId, ok) ==
  /\ Has(tabs, tabId)
  /\ tabs' = Del(tabs, tabId)
  /\ IF listening /\ Has(tabData, tabId)
       THEN /\ tabData' = Del(tabData, tabId)
            /\ storage' = SaveTabData(tabData', ok)
       ELSE UNCHANGED <<tabData, storage>>
  /\ UNCHANGED <<now, currentSettings, lastAutomaticBackup, alarms, tasks,
                 response, dash, opts, removed, listening,
                 ui>>

----------------------------------------------------------------------------
(* Background: performBackup *)

(* const createdAt = tabData[tab.id]?.createdAt || tabData[tab.id]?.lastUpdated || now *)
PassCreatedAt(td, id, t) ==
  IF ~Has(td, id) THEN t
  ELSE IF Has(td[id], "createdAt") /\ Truthy(td[id].createdAt)
         THEN td[id].createdAt
  ELSE IF Has(td[id], "lastUpdated") /\ Truthy(td[id].lastUpdated)
         THEN td[id].lastUpdated
  ELSE t

(* the age is compared without the conversion to days *)
PassTooYoung_NoDays(td, tab, s, t) ==
  /\ s.minDays >= 0
  /\ (t - PassCreatedAt(td, tab.id, t)) < s.minDays

(* if (minDays >= 0) { ...; if (tabAgeDays < minDays) continue; } *)
PassTooYoung(td, tab, s, t) ==
  /\ s.minDays >= 0
  /\ (t - PassCreatedAt(td, tab.id, t)) < s.minDays * DayMs

(* the tab's URL is not looked at *)
PassSkips_AnyUrl(td, tab, s, t) ==
  \/ s.excludePrivate /\ tab.incognito
  \/ s.excludePinned /\ tab.pinned
  \/ PassTooYoung(td, tab, s, t)

PassSkips(td, tab, s, t) ==
  \/ s.excludePrivate /\ tab.incognito
  \/ s.excludePinned /\ tab.pinned
  \/ tab.url = <<>>
  \/ ~StartsWithHttp(tab.url)
  \/ PassTooYoung(td, tab, s, t)

OldFavIcon(rec) == IF Has(rec, "favIconUrl") THEN rec.favIconUrl ELSE ""

(* tab.favIconUrl || tabData[tab.id].favIconUrl || '' *)
PassFavIcon(tab, rec) ==
  IF tab.favIconUrl # "" THEN tab.favIconUrl ELSE OldFavIcon(rec)

(* the record is always written anew *)
PassUpsert_Recreate(td, tab, s, t) ==
  Put(td, tab.id,
      [title |-> TitleOf(tab, s), url |-> tab.url, createdAt |-> t,
       lastUpdated |-> t, favIconUrl |-> tab.favIconUrl])

PassUpsert(td, tab, s, t) ==
  IF ~Has(td, tab.id)
       \/ ~(Has(td[tab.id], "createdAt") /\ Truthy(td[tab.id].createdAt))
    THEN Put(td, tab.id,
             [title |-> TitleOf(tab, s), url |-> tab.url, createdAt |-> t,
              lastUpdated |-> t, favIconUrl |-> tab.favIconUrl])
    ELSE Put(td, tab.id,
             Merge(td[tab.id],
                   [title |-> TitleOf(tab, s), url |-> tab.url,
                    lastUpdated |-> t,
                    favIconUrl |-> PassFavIcon(tab, td[tab.id])]))

(* backupCount++; if (backupCount >= currentSettings.maxTabs) break; *)
PassStops(count, s) == count >= s.maxTabs

(* The for loop over the queried tabs, from index i: the map, the count and *)
(* the identifiers upserted                                                  *)
RECURSIVE PassLoop(_, _, _, _, _, _, _)
PassLoop(snap, i, td, count, ids, s, t) ==
  IF i > Len(snap) THEN [tabData |-> td, count |-> count, ids |-> ids]
  ELSE IF PassSkips(td, snap[i], s, t)
    THEN PassLoop(snap, i + 1, td, count, ids, s, t)
  ELSE IF PassStops(count + 1, s)
    THEN [tabData |-> PassUpsert(td, snap[i], s, t), count |-> count + 1,
          ids |-> ids \cup {snap[i].id}]
  ELSE PassLoop(snap, i + 1, PassUpsert(td, snap[i], s, t), count + 1,
                ids \cup {snap[i].id}, s, t)

(* tabs.query({}): the open tabs, in the host's order *)
Orders(S) ==
  {q \in [1..Cardinality(S) -> S] : \A i, j \in DOMAIN q : i # j => q[i] # q[j]}

QueryTabs(order) == [i \in DOMAIN order |-> tabs[order[i]]]

BackupResult(ok, count) ==
  IF ~ok THEN [type |-> "backup", success |-> FALSE, count |-> NULL,
               message |-> "error"]
  ELSE IF count = 0
    THEN [type |-> "backup", success |-> TRUE, count |-> 0,
          message |-> "No tabs to back up"]
  ELSE [type |-> "backup", success |-> TRUE, count |-> count, message |-> ""]

(* performBackup up to its first await: browser.tabs.query({}) is issued. *)
(* kind is the caller: "message" (handleMessage) or "alarm" (handleAlarm); *)
(* fireTime is handleAlarm's const now                                      *)
PassStart(slot, kind, fireTime, order) ==
  /\ slot \in FreeSlots
  /\ order \in Orders(DOMAIN tabs)
  /\ tasks' = [tasks EXCEPT ![slot] =
                 [kind |-> kind, pc |-> "query", now |-> fireTime,
                  snap |-> QueryTabs(order), count |-> 0, ok |-> TRUE,
                  from |-> "none"]]

(* a caller that records the time of the pass whoever asked for it *)
PassReturn_AsAlarm(slot, result, lok) ==
  /\ tasks' = [tasks EXCEPT ![slot] = Idle]
  /\ lastAutomaticBackup' = now
  /\ storage' = [storage EXCEPT !.lastAutomaticBackup = now]
  /\ response' = IF tasks[slot].kind = "alarm" THEN response ELSE result

(* What the caller does with the pass's result *)
PassReturn(slot, result, lok) ==
  /\ tasks' = [tasks EXCEPT ![slot] = Idle]
  /\ IF tasks[slot].kind = "alarm"
       THEN /\ lastAutomaticBackup' = tasks[slot].now
            /\ storage' = IF lok
                 THEN [storage EXCEPT !.lastAutomaticBackup = tasks[slot].now]
                 ELSE storage
            /\ UNCHANGED response
       ELSE /\ response' = result
            /\ UNCHANGED <<lastAutomaticBackup, storage>>

(* tabs.query has settled: the loop runs and saveTabData issues its write; *)
(* a rejected query goes to the catch and returns at once                  *)
PassResume(slot, qok, wok, lok) ==
  /\ tasks[slot].pc = "query"
  /\ IF qok
       THEN LET r == PassLoop(tasks[slot].snap, 1, tabData, 0, {},
                              currentSettings, now)
            IN /\ tabData' = r.tabData
               /\ storage' = SaveTabData(r.tabData, wok)
               /\ removed' = removed \ r.ids
               /\ tasks' = [tasks EXCEPT ![slot].pc = "save",
                                         ![slot].count = r.count,
                                         ![slot].ok = wok]
               /\ UNCHANGED <<lastAutomaticBackup, response>>
       ELSE /\ PassReturn(slot, BackupResult(FALSE, 0), lok)
            /\ UNCHANGED <<tabData, removed>>
  /\ UNCHANGED <<now, tabs, currentSettings, alarms, dash, opts, listening, ui>>

(* the write has settled: performBackup returns to its caller *)
PassFinish(slot, lok) ==
  /\ tasks[slot].pc = "save"
  /\ PassReturn(slot, BackupResult(tasks[slot].ok, tasks[slot].count), lok)
  /\ UNCHANGED <<now, tabs, currentSettings, tabData, alarms, dash, opts,
                 removed, listening, ui>>

(* handleMessage, case 'performBackup' *)
MsgPerformBackup(slot, order) ==
  /\ listening
  /\ PassStart(slot, "message", 0, order)
  /\ UNCHANGED <<now, tabs, currentSettings, tabData, lastAutomaticBackup,
                 storage, alarms, response, dash, opts, removed, listening,
                 ui>>

----------------------------------------------------------------------------
(* Host: browser.alarms *)

AlarmName == "automaticBackup"

NaN == NULL

AlarmsNamed(reg, name) == {i \in DOMAIN reg : reg[i].name = name}

(* alarms.clear(name) *)
AlarmsClear(reg, name) == SelectSeq(reg, LAMBDA a : a.name # name)

(* a host that adds the alarm and keeps one of the same name *)
AlarmsCreate_Add(reg, name, when, period) ==
  Append(reg, [name |-> name, when |-> when, period |-> period])

(* alarms.create(name, {when, periodInMinutes}): an alarm of the same name *)
(* is cancelled and replaced                                               *)
AlarmsCreate(reg, name, when, period) ==
  Append(AlarmsClear(reg, name),
         [name |-> name, when |-> when, period |-> period])

MinuteMs == HourMs \div 60

(* nextBackup.setHours(hours, minutes, 0, 0); if (nextBackup <= now) roll *)
(* to tomorrow                                                            *)
NextBackupTime(t, backupTime) ==
  LET today == ((t \div DayMs) * DayMs) + (backupTime[1] * HourMs)
                 + (backupTime[2] * MinuteMs)
  IN IF today <= t THEN today + DayMs ELSE today

(* periodInMinutes: currentSettings.backupInterval * 24 * 60 *)
BackgroundPeriod(s) ==
  IF Has(s, "backupInterval") THEN s.backupInterval * 24 * 60 ELSE NaN

----------------------------------------------------------------------------
(* Background: handleAlarm *)

(* a handler without the weekday check *)
WrongDay_Never(s, t) == FALSE

(* !backupDays.includes(today) *)
WrongDay(s, t) == Today(t) \notin s.backupDays

(* lastAutomaticBackup && (now - lastAutomaticBackup) < toleranceMs *)
TooSoon(s, last, t) ==
  Truthy(last) /\ (t - last) < s.toleranceHours * HourMs

(* alarms.onAlarm for an alarm called name, up to the first await *)
HandleAlarm(name, slot, order) ==
  /\ listening
  /\ IF name # AlarmName \/ WrongDay(currentSettings, now)
          \/ TooSoon(currentSettings, lastAutomaticBackup, now)
       THEN UNCHANGED tasks
       ELSE PassStart(slot, "alarm", now, order)
  /\ UNCHANGED <<now, tabs, currentSettings, tabData, lastAutomaticBackup,
                 storage, response, dash, opts, removed, listening,
                 ui>>

(* The host fires a registered alarm whose time has come.  An alarm without *)
(* a period is removed; a periodic one is due again one period after its    *)
(* scheduled time (fromNow false) or after the fire (fromNow true)          *)
AlarmFires(i, slot, order, fromNow) ==
  /\ i \in DOMAIN alarms
  /\ alarms[i].when <= now
  /\ alarms' =
       IF alarms[i].period = NaN
         THEN SelectSeq(alarms, LAMBDA a : a # alarms[i])
         ELSE [alarms EXCEPT ![i].when =
                 (IF fromNow THEN now ELSE @) + (alarms[i].period * MinuteMs)]
  /\ HandleAlarm(alarms[i].name, slot, order)

----------------------------------------------------------------------------
(* Background: scheduleAutomaticBackup, handleMessage 'updateSettings' *)

StoreSettings(st, s, ok) == IF ok THEN [st EXCEPT !.settings = <<s>>] ELSE st

ErrorResponse == [type |-> "error"]

TaskOf(kind, pc, from, read) ==
  [kind |-> kind, pc |-> pc, now |-> 0, snap |-> read, count |-> 0,
   ok |-> TRUE, from |-> from]

(* The sender of an updateSettings message gets its answer *)
Answer(from) ==
  IF from = "options" /\ opts.pc = "awaiting"
    THEN opts' = [opts EXCEPT !.pc = "answered"]
    ELSE UNCHANGED opts

(* currentSettings = {...currentSettings, ...message.settings}; the write   *)
(* of the settings is issued.  A rejected write goes to the catch, which    *)
(* answers with an error                                                    *)
UpdateSettingsStart(slot, settings, from, ok) ==
  /\ listening
  /\ slot \in FreeSlots
  /\ currentSettings' = Merge(currentSettings, settings)
  /\ storage' = StoreSettings(storage, currentSettings', ok)
  /\ IF ok
       THEN /\ tasks' = [tasks EXCEPT ![slot] =
                           TaskOf("updateSettings", "set", from, <<>>)]
            /\ UNCHANGED response
       ELSE /\ response' = ErrorResponse
            /\ UNCHANGED tasks

(* handleMessage, case 'updateSettings', sent by a page other than options *)
MsgUpdateSettings(slot, settings, ok) ==
  /\ UpdateSettingsStart(slot, settings, "page", ok)
  /\ UNCHANGED <<now, tabs, tabData, lastAutomaticBackup, alarms, dash, opts,
                 removed, listening, ui>>

(* the settings are written: schedule (whose first call is alarms.clear) or *)
(* clear the alarm                                                          *)
UpdateSettingsStored(slot) ==
  /\ tasks[slot].kind = "updateSettings"
  /\ tasks[slot].pc = "set"
  /\ alarms' = AlarmsClear(alarms, AlarmName)
  /\ tasks' = [tasks EXCEPT ![slot].pc =
                 IF currentSettings.autoBackupEnabled THEN "cleared"
                                                      ELSE "respond"]
  /\ UNCHANGED <<now, tabs, currentSettings, tabData, lastAutomaticBackup,
                 storage, response, dash, opts, removed, listening,
                 ui>>

(* scheduleAutomaticBackup after its alarms.clear: alarms.create is issued. *)
(* The host may reject a period that is not a number (accepts false); the   *)
(* catch logs it                                                            *)
ScheduleCreate(slot, accepts) ==
  /\ tasks[slot].pc = "cleared"
  /\ alarms' =
       IF BackgroundPeriod(currentSettings) = NaN /\ ~accepts
         THEN alarms
         ELSE AlarmsCreate(alarms, AlarmName,
                           NextBackupTime(now, currentSettings.backupTime),
                           BackgroundPeriod(currentSettings))
  /\ tasks' = [tasks EXCEPT ![slot] =
                 IF tasks[slot].kind = "updateSettings"
                   THEN [@ EXCEPT !.pc = "respond"]
                   ELSE Idle]
  /\ UNCHANGED <<now, tabs, currentSettings, tabData, lastAutomaticBackup,
                 storage, response, dash, opts, removed, listening,
                 ui>>

(* sendResponse({ success: true }) *)
UpdateSettingsRespond(slot) ==
  /\ tasks[slot].kind = "updateSettings"
  /\ tasks[slot].pc = "respond"
  /\ response' = [type |-> "updateSettings", success |-> TRUE]
  /\ Answer(tasks[slot].from)
  /\ tasks' = [tasks EXCEPT ![slot] = Idle]
  /\ UNCHANGED <<now, tabs, currentSettings, tabData, lastAutomaticBackup,
                 storage, alarms, dash, removed, listening,
                 ui>>

----------------------------------------------------------------------------
(* Background: initialize *)

(* loadSettings after its storage read; read is what storage.get gave *)
LoadSettings(read, s, ok) ==
  IF ~ok THEN DEFAULT_SETTINGS
  ELSE IF read # <<>> THEN Merge(DEFAULT_SETTINGS, read[1])
  ELSE s

(* loadTabData after its storage read *)
LoadTabData(read, ok) == IF ok THEN read ELSE EmptyObj

(* initialize up to its first await: loadSettings issues its read *)
InitializeStart(slot) ==
  /\ slot \in FreeSlots
  /\ tasks' = [tasks EXCEPT ![slot] =
                 TaskOf("init", "loadSettings", "script", storage.settings)]
  /\ UNCHANGED <<now, tabs, currentSettings, tabData, lastAutomaticBackup,
                 storage, alarms, response, dash, opts, removed, listening,
                 ui>>

(* the settings are loaded; loadTabData issues its read *)
InitializeSettings(slot, ok) ==
  /\ tasks[slot].pc = "loadSettings"
  /\ currentSettings' = LoadSettings(tasks[slot].snap, currentSettings, ok)
  /\ tasks' = [tasks EXCEPT ![slot].pc = "loadTabData",
                            ![slot].snap = storage.tabData]
  /\ UNCHANGED <<now, tabs, tabData, lastAutomaticBackup, storage, alarms,
                 response, dash, opts, removed, listening,
                 ui>>

(* the tab data is loaded, the listeners are added, and if automatic backup *)
(* is enabled scheduleAutomaticBackup issues its alarms.clear               *)
InitializeTabData(slot, ok) ==
  /\ tasks[slot].pc = "loadTabData"
  /\ tabData' = LoadTabData(tasks[slot].snap, ok)
  /\ listening' = TRUE
  /\ IF currentSettings.autoBackupEnabled
       THEN /\ alarms' = AlarmsClear(alarms, AlarmName)
            /\ tasks' = [tasks EXCEPT ![slot].pc = "cleared",
                                      ![slot].snap = <<>>]
       ELSE /\ tasks' = [tasks EXCEPT ![slot] = Idle]
            /\ UNCHANGED alarms
  /\ UNCHANGED <<now, tabs, currentSettings, lastAutomaticBackup, storage,
                 response, dash, opts, removed, ui>>

----------------------------------------------------------------------------
(* Options page: saveSettings, reset *)

(* parseInt(field) || default: a field is <<>> (not a number) or <<n>> *)
ParseIntOr(field, default) ==
  IF field = <<>> \/ field[1] = 0 THEN default ELSE field[1]

CollectSettings(form) ==
  [minDays |-> ParseIntOr(form.minDays, DEFAULT_SETTINGS.minDays),
   maxTabs |-> ParseIntOr(form.maxTabs, DEFAULT_SETTINGS.maxTabs),
   autoBackupEnabled |-> form.autoBackupEnabled,
   backupTime |-> form.backupTime,
   backupDays |-> form.backupDays,
   toleranceHours |->
     ParseIntOr(form.toleranceHours, DEFAULT_SETTINGS.toleranceHours),
   excludePrivate |-> form.excludePrivate,
   excludePinned |-> form.excludePinned,
   maxTitleLength |->
     ParseIntOr(form.maxTitleLength, DEFAULT_SETTINGS.maxTitleLength),
   theme |-> form.theme]

(* the checks of settings.backupInterval compare undefined and never throw *)
ValidSettings(s) ==
  /\ ~(s.minDays < 1 \/ s.minDays > 365)
  /\ ~(s.maxTabs < 1 \/ s.maxTabs > 1000)
  /\ ~(s.toleranceHours < 1 \/ s.toleranceHours > 24)

OptionsIdle(status) == [pc |-> "idle", settings |-> <<>>, status |-> status]

(* saveSettings up to its first await: the settings are collected and      *)
(* checked, and the write is issued.  ui.before keeps the settings the     *)
(* store held when the save began (history)                                *)
OptionsSave(form, ok) ==
  /\ opts.pc = "idle"
  /\ ui' = [ui EXCEPT !.before = storage.settings]
  /\ IF ValidSettings(CollectSettings(form)) /\ ok
       THEN /\ storage' = StoreSettings(storage, CollectSettings(form), TRUE)
            /\ opts' = [pc |-> "stored", settings |-> <<CollectSettings(form)>>,
                        status |-> "none"]
       ELSE /\ opts' = OptionsIdle("error")
            /\ UNCHANGED storage
  /\ UNCHANGED <<now, tabs, currentSettings, tabData, lastAutomaticBackup,
                 alarms, tasks, response, dash, removed, listening>>

(* runtime.sendMessage({action: 'updateSettings', settings}): the message  *)
(* is rejected when the background does not listen yet                     *)
OptionsSend(slot, ok) ==
  /\ opts.pc = "stored"
  /\ IF listening
       THEN /\ UpdateSettingsStart(slot, opts.settings[1], "options", ok)
            /\ opts' = [opts EXCEPT !.pc = IF ok THEN "awaiting"
                                                  ELSE "answered"]
       ELSE /\ opts' = OptionsIdle("error")
            /\ UNCHANGED <<currentSettings, storage, tasks, response>>
  /\ UNCHANGED <<now, tabs, tabData, lastAutomaticBackup, alarms, dash,
                 removed, listening, ui>>

DayMinutes == 24 * 60

(* the answer has come: scheduleAutomaticBackup(settings), which creates    *)
(* the alarm without clearing first, or cancelAutomaticBackup()             *)
OptionsSchedule(cok) ==
  /\ opts.pc = "answered"
  /\ IF opts.settings[1].autoBackupEnabled
       THEN IF cok
              THEN /\ alarms' = AlarmsCreate(alarms, AlarmName,
                          NextBackupTime(now, opts.settings[1].backupTime),
                          DayMinutes)
                   /\ opts' = OptionsIdle("success")
              ELSE /\ opts' = OptionsIdle("error")
                   /\ UNCHANGED alarms
       ELSE /\ alarms' = AlarmsClear(alarms, AlarmName)
            /\ opts' = OptionsIdle("success")
  /\ UNCHANGED <<now, tabs, currentSettings, tabData, lastAutomaticBackup,
                 storage, tasks, response, dash, removed, listening,
                 ui>>

(* resetBtn: storage.local.set({ settings: DEFAULT_SETTINGS }) *)
OptionsReset(ok) ==
  /\ opts.pc = "idle"
  /\ storage' = StoreSettings(storage, DEFAULT_SETTINGS, ok)
  /\ opts' = OptionsIdle(IF ok THEN "success" ELSE "error")
  /\ UNCHANGED <<now, tabs, currentSettings, tabData, lastAutomaticBackup,
                 alarms, tasks, response, dash, removed, listening,
                 ui>>

----------------------------------------------------------------------------
(* Dashboard: loadTabLog *)

(* getDomain: new URL(url).hostname *)
GetDomain(url) == IF url = <<>> THEN "" ELSE url[2]

(* Math.floor((now - createdAt) / (24 * 60 * 60 * 1000)) *)
AgeInDays(createdAt, t) == (t - createdAt) \div DayMs

(* for (const tabId in obj): integer keys in ascending order *)
RECURSIVE KeysInOrder(_)
KeysInOrder(S) ==
  IF S = {} THEN <<>>
  ELSE LET k == CHOOSE x \in S : \A y \in S : x <= y
       IN <<k>> \o KeysInOrder(S \ {k})

LoggedUrlSet(logged) ==
  {logged[id].url : id \in {i \in DOMAIN logged : logged[i].url # <<>>}}

(* the first record, in key order, with this URL *)
FirstWithUrl(logged, url) ==
  LET ids == {i \in DOMAIN logged : logged[i].url = url}
  IN IF ids = {} THEN 0 ELSE CHOOSE x \in ids : \A y \in ids : x <= y

(* openTabsMap[tab.url] = tab: the URLs in order of first occurrence, each *)
(* with the last tab that has it                                           *)
OpenHttp_AnyScheme(open) == open

OpenHttp(open) == SelectSeq(open, LAMBDA tab : StartsWithHttp(tab.url))

RECURSIVE OpenUrlOrder(_, _)
OpenUrlOrder(open, seen) ==
  IF open = <<>> THEN <<>>
  ELSE IF Head(open).url \in seen THEN OpenUrlOrder(Tail(open), seen)
  ELSE <<Head(open).url>> \o OpenUrlOrder(Tail(open), seen \cup {Head(open).url})

LastTabWithUrl(open, url) ==
  LET idx == {i \in DOMAIN open : open[i].url = url}
  IN open[CHOOSE i \in idx : \A j \in idx : j <= i]

OpenRow(tab, logged, t) ==
  LET isLogged == tab.url \in LoggedUrlSet(logged)
      entry == FirstWithUrl(logged, tab.url)
  IN [url |-> tab.url, title |-> tab.title, domain |-> GetDomain(tab.url),
      ageInDays |-> IF isLogged THEN AgeInDays(logged[entry].createdAt, t)
                                ELSE 0,
      tabId |-> tab.id, logged |-> isLogged,
      createdAt |-> IF isLogged THEN logged[entry].createdAt
                                ELSE tab.lastAccessed]

LoggedRow(rec, id, t) ==
  [url |-> rec.url, title |-> rec.title, domain |-> GetDomain(rec.url),
   ageInDays |-> AgeInDays(rec.createdAt, t), tabId |-> id, logged |-> TRUE,
   createdAt |-> rec.createdAt]

(* combinedTabs: the open tabs, then the logged tabs whose URL is not open *)
TabLogRows(logged, open, t) ==
  LET http == OpenHttp(open)
      urls == OpenUrlOrder(http, {})
      openRows == [i \in DOMAIN urls |->
                     OpenRow(LastTabWithUrl(http, urls[i]), logged, t)]
      keys == KeysInOrder(DOMAIN logged)
      closed == SelectSeq(keys, LAMBDA id :
                  \A i \in DOMAIN urls : urls[i] # logged[id].url)
      loggedRows == [i \in DOMAIN closed |->
                       LoggedRow(logged[closed[i]], closed[i], t)]
  IN openRows \o loggedRows

DashIdle(rows) ==
  [pc |-> "idle", rows |-> rows, checked |-> {}, data |-> EmptyObj,
   nextId |-> dash.nextId, quiet |-> TRUE]

(* loadTabLog: the stored records and the open tabs are read and the table *)
(* is rendered with every box unchecked                                    *)
LoadTabLog(order) ==
  /\ dash.pc = "idle"
  /\ order \in Orders(DOMAIN tabs)
  /\ dash' = DashIdle(TabLogRows(storage.tabData, QueryTabs(order), now))
  /\ UNCHANGED <<now, tabs, currentSettings, tabData, lastAutomaticBackup,
                 storage, alarms, tasks, response, opts, removed, listening,
                 ui>>

(* the user checks the box of row i *)
CheckRow(i) ==
  /\ dash.pc = "idle"
  /\ i \in DOMAIN dash.rows
  /\ i \notin dash.checked
  /\ dash' = [dash EXCEPT !.checked = @ \cup {i}]
  /\ UNCHANGED <<now, tabs, currentSettings, tabData, lastAutomaticBackup,
                 storage, alarms, tasks, response, opts, removed, listening,
                 ui>>

----------------------------------------------------------------------------
(* Dashboard: handleAddRemoveCheckedTabs, remove all logs *)

(* the click, up to the first await: storage.local.get('tabData') *)
AddRemoveRead ==
  /\ dash.pc = "idle"
  /\ dash.checked # {}
  /\ dash' = [dash EXCEPT !.pc = "read", !.data = storage.tabData,
                          !.quiet = ~Busy]
  /\ UNCHANGED <<now, tabs, currentSettings, tabData, lastAutomaticBackup,
                 storage, alarms, tasks, response, opts, removed, listening,
                 ui>>

(* Date.now() + Math.random().toString(36).substr(2, 9): no tab has it *)
FreshId(n) == DashIdBase + n

(* the record the dashboard adds for a row; its domain is the text of the *)
(* row's fourth cell, the formatted opening date                          *)
AddedRecord(row, t) ==
  [url |-> row.url,
   title |-> IF row.title = <<>> THEN <<"U", "n", "t", "i", "t", "l", "e", "d">>
                                 ELSE row.title,
   createdAt |-> t, domain |-> <<"date", row.createdAt>>]

(* the loop over the checked boxes, in the order of the rows: data is the *)
(* map, n the identifiers generated, gone the identifiers deleted         *)
RECURSIVE AddRemoveLoop(_, _, _, _, _, _, _)
AddRemoveLoop(rows, checked, i, data, n, gone, t) ==
  IF i > Len(rows)
    THEN [data |-> data, n |-> n, gone |-> gone,
          changes |-> (gone # {} \/ n # dash.nextId)]
  ELSE IF i \notin checked
    THEN AddRemoveLoop(rows, checked, i + 1, data, n, gone, t)
  ELSE IF rows[i].logged
    THEN LET id == FirstWithUrl(data, rows[i].url)
         IN IF id = 0
              THEN AddRemoveLoop(rows, checked, i + 1, data, n, gone, t)
              ELSE AddRemoveLoop(rows, checked, i + 1, Del(data, id), n,
                                 gone \cup {id}, t)
  ELSE AddRemoveLoop(rows, checked, i + 1,
                     Put(data, FreshId(n + 1), AddedRecord(rows[i], t)),
                     n + 1, gone, t)

Unlogged(rows, checked) == {i \in checked : ~rows[i].logged}

(* the read has settled: the loop runs and, if it changed anything, the   *)
(* write is issued; after it the table is loaded again                    *)
AddRemoveWrite(ok, order) ==
  /\ dash.pc = "read"
  /\ order \in Orders(DOMAIN tabs)
  /\ dash.nextId + Cardinality(Unlogged(dash.rows, dash.checked)) <= MaxDashIds
  /\ LET r == AddRemoveLoop(dash.rows, dash.checked, 1, dash.data,
                            dash.nextId, {}, now)
     IN /\ storage' = IF r.changes /\ ok
                        THEN [storage EXCEPT !.tabData = r.data]
                        ELSE storage
        /\ removed' = IF r.changes /\ ok /\ dash.quiet /\ ~Busy
                        THEN removed \cup r.gone
                        ELSE removed
        /\ dash' = IF r.changes /\ ok
                     THEN [DashIdle(TabLogRows(r.data, QueryTabs(order), now))
                             EXCEPT !.nextId = r.n]
                     ELSE [dash EXCEPT !.pc = "idle", !.data = EmptyObj,
                                       !.nextId = r.n, !.quiet = TRUE]
  /\ UNCHANGED <<now, tabs, currentSettings, tabData, lastAutomaticBackup,
                 alarms, tasks, response, opts, listening,
                 ui>>

(* remove-all-logs-btn: storage.local.set({ tabData: {} }), then loadTabLog *)
RemoveAllLogs(ok, order) ==
  /\ dash.pc = "idle"
  /\ order \in Orders(DOMAIN tabs)
  /\ storage' = IF ok THEN [storage EXCEPT !.tabData = EmptyObj] ELSE storage
  /\ removed' = IF ok /\ ~Busy THEN removed \cup DOMAIN storage.tabData
                                ELSE removed
  /\ dash' = IF ok THEN DashIdle(TabLogRows(EmptyObj, QueryTabs(order), now))
                    ELSE dash
  /\ UNCHANGED <<now, tabs, currentSettings, tabData, lastAutomaticBackup,
                 alarms, tasks, response, opts, listening,
                 ui>>

----------------------------------------------------------------------------
(* Initial states *)

NoTasks == [s \in Slots |-> Idle]

EmptyStorage ==
  [settings |-> <<>>, tabData |-> EmptyObj, lastAutomaticBackup |-> NULL]

(* The background has been initialised on an empty store; no tab is open *)
InitRunning ==
  /\ now = DayMs
  /\ tabs = EmptyObj
  /\ currentSettings = DEFAULT_SETTINGS
  /\ tabData = EmptyObj
  /\ lastAutomaticBackup = NULL
  /\ storage = EmptyStorage
  /\ alarms = <<>>
  /\ tasks = NoTasks
  /\ response = NoResponse
  /\ dash = [pc |-> "idle", rows |-> <<>>, checked |-> {}, data |-> EmptyObj,
             nextId |-> 0, quiet |-> TRUE]
  /\ opts = [pc |-> "idle", settings |-> <<>>, status |-> "none"]
  /\ listening = TRUE
  /\ removed = {}
  /\ ui = NoUi

(* The lowest free slot takes the next handler *)
NewSlot == CHOOSE s \in Slots : s \in FreeSlots /\ \A r \in FreeSlots : s <= r

----------------------------------------------------------------------------
(* Spec: ageing tabs, the tracker, settings messages and passes *)

MaxAgedTabs == 1   \* tabs of Spec: identifiers 1..MaxAgedTabs

AgedTabs == 1..MaxAgedTabs

StepDays == {5}

AgeSettings ==
  {[minDays |-> -1], [minDays |-> 0], [minDays |-> 7], [maxTabs |-> 1]}

Init == InitRunning

Next ==
  \/ \E d \in StepDays : Tick(d * DayMs)
  \/ OpenTab(1, ExampleUrl, ExampleTitle, FALSE, FALSE, "")
  \/ \E id \in AgedTabs \ {1}, incognito \in BOOLEAN :
       OpenTab(id, OtherUrl, OtherTitle, FALSE, incognito, "")
  \/ Navigate(1, OtherUrl, OtherTitle)
  \/ Navigate(1, AboutUrl, OtherTitle)
  \/ \E id \in AgedTabs : HandleTabUpdate(id, "complete", TRUE)
  \/ \E settings \in AgeSettings :
       ~Busy /\ MsgUpdateSettings(NewSlot, settings, TRUE)
  \/ \E slot \in Slots : UpdateSettingsStored(slot)
  \/ \E slot \in Slots : UpdateSettingsRespond(slot)
  \/ \E order \in Orders(DOMAIN tabs) :
       ~Busy /\ MsgPerformBackup(NewSlot, order)
  \/ \E slot \in Slots : PassResume(slot, TRUE, TRUE, TRUE)
  \/ \E slot \in Slots : PassFinish(slot, TRUE)

Spec == Init /\ [][Next]_vars

(* A step in which the loop of a pass runs *)
LoopRuns(slot) == tasks[slot].pc = "query" /\ tasks'[slot].pc = "save"

(* The age the pass gives a tab: from its record's creation time, and none *)
(* for a tab without a record                                              *)
RecordAge(td, id, t) == IF Has(td, id) THEN t - td[id].createdAt ELSE 0

PassesChecks(tab, s) ==
  /\ StartsWithHttp(tab.url)
  /\ ~(s.excludePrivate /\ tab.incognito)
  /\ ~(s.excludePinned /\ tab.pinned)

SameRecord(id) ==
  /\ Has(tabData, id) <=> Has(tabData', id)
  /\ Has(tabData, id) => tabData'[id] = tabData[id]

Upserted(tab) ==
  /\ Has(tabData', tab.id)
  /\ tabData'[tab.id].url = tab.url
  /\ tabData'[tab.id].lastUpdated = now

(* C1: in a pass with minDays >= 0 no tab younger than minDays days is     *)
(* upserted; with minDays < 0 every tab that passes the URL, private and   *)
(* pinned checks is upserted whatever its age, until the cap stops the pass *)
C1_YoungTabsNotUpserted ==
  [][\A slot \in Slots : LoopRuns(slot) =>
       \A i \in DOMAIN tasks[slot].snap :
         LET tab == tasks[slot].snap[i]
         IN /\ (currentSettings.minDays >= 0
                 /\ RecordAge(tabData, tab.id, now)
                      < currentSettings.minDays * DayMs)
                => SameRecord(tab.id)
            /\ (currentSettings.minDays < 0
                 /\ PassesChecks(tab, currentSettings))
                => (Upserted(tab)
                    \/ tasks'[slot].count >= currentSettings.maxTabs)]_vars

(* a pass with minDays = 7 has skipped a tab whose record is 5 days old *)
C1_Witness ==
  \E slot \in Slots :
    /\ tasks[slot].pc = "save"
    /\ tasks[slot].count = 0
    /\ currentSettings.minDays = 7
    /\ \E i \in DOMAIN tasks[slot].snap :
         LET id == tasks[slot].snap[i].id
         IN /\ StartsWithHttp(tasks[slot].snap[i].url)
            /\ Has(tabData, id)
            /\ now - tabData[id].createdAt = 5 * DayMs
            /\ tabData[id].lastUpdated < now

(* the scenario: minDays = 7 and a single open tab, not excluded, opened  *)
(* 10 days ago with title "Example" and URL https://example.com/          *)
Scenario(slot) ==
  /\ currentSettings.minDays = 7
  /\ Len(tasks[slot].snap) = 1
  /\ tasks[slot].snap[1].url = ExampleUrl
  /\ tasks[slot].snap[1].title = ExampleTitle
  /\ now - tasks[slot].snap[1].createdAt = 10 * DayMs
  /\ PassesChecks(tasks[slot].snap[1], currentSettings)

ScenarioResult(slot) ==
  /\ tasks'[slot].count = 1
  /\ Cardinality({id \in DOMAIN storage'.tabData :
                    storage'.tabData[id].url = ExampleUrl}) = 1
  /\ LET rows == TabLogRows(storage'.tabData, tasks[slot].snap, now)
     IN \E i \in DOMAIN rows :
          rows[i].url = ExampleUrl /\ rows[i].ageInDays = 10

(* C2: with minDays = 7 and a single open tab, not excluded, opened 10 days *)
(* ago with title "Example" and URL https://example.com/, a pass counts 1   *)
(* and leaves exactly one record with that URL, which the dashboard shows   *)
(* with ageInDays = 10, whether or not the tab had a record                 *)
C2_ScenarioUpsertsOne ==
  [][\A slot \in Slots :
       (LoopRuns(slot) /\ Scenario(slot)) => ScenarioResult(slot)]_vars

(* the scenario of C2 for a tab that has a record made when it was opened *)
C2_ScenarioWithRecord ==
  [][\A slot \in Slots :
       (LoopRuns(slot) /\ Scenario(slot) /\ Has(tabData, 1)
        /\ tabData[1].createdAt = tasks[slot].snap[1].createdAt)
       => ScenarioResult(slot)]_vars

(* the fields of an existing record that a pass writes *)
RefreshedFields == {"lastUpdated", "title", "url", "favIconUrl"}

(* the step keeps record id and changes at most the given fields of it *)
OnlyFieldsChange(id, fields) ==
  /\ Has(tabData', id)
  /\ DOMAIN tabData'[id] \ fields = DOMAIN tabData[id] \ fields
  /\ \A k \in DOMAIN tabData[id] \ fields : tabData'[id][k] = tabData[id][k]

(* C3 (as amended): a pass leaves the createdAt of every record that       *)
(* exists before it unchanged; of such a record only lastUpdated, title,   *)
(* url and the favicon can differ after the pass                           *)
C3_PassPreservesCreatedAt ==
  [][\A slot \in Slots : LoopRuns(slot) =>
       \A id \in DOMAIN tabData :
         /\ OnlyFieldsChange(id, RefreshedFields)
         /\ tabData'[id].createdAt = tabData[id].createdAt]_vars

(* C3 as stated: a pass leaves the createdAt of every record that exists   *)
(* before it unchanged, and only lastUpdated, title and the favicon of     *)
(* such a record can differ after the pass: its url is unchanged           *)
C3_PassKeepsUrl ==
  [][\A slot \in Slots : LoopRuns(slot) =>
       \A id \in DOMAIN tabData :
         /\ OnlyFieldsChange(id, RefreshedFields \ {"url"})
         /\ tabData'[id].createdAt = tabData[id].createdAt
         /\ tabData'[id].url = tabData[id].url]_vars

(* a pass has refreshed a record that existed before it: only a pass       *)
(* writes the favicon, and a record it creates has lastUpdated = createdAt *)
C3_Witness ==
  \E slot \in Slots :
    /\ tasks[slot].pc = "save"
    /\ tasks[slot].count > 0
    /\ \E id \in DOMAIN tabData :
         /\ Has(tabData[id], "favIconUrl")
         /\ tabData[id].lastUpdated = now
         /\ tabData[id].createdAt < now

(* C4: while a tab identifier has a record, the record's createdAt never   *)
(* changes, whatever tracker updates and passes are applied                *)
C4_CreatedAtImmutable ==
  [][\A id \in DOMAIN tabData \cap DOMAIN tabData' :
       tabData'[id].createdAt = tabData[id].createdAt]_vars

----------------------------------------------------------------------------
(* SpecCap: several open tabs and the cap of a pass *)

CapSettings ==
  {[minDays |-> -1, maxTabs |-> 0], [minDays |-> -1, maxTabs |-> 1],
   [minDays |-> -1, maxTabs |-> 2], [minDays |-> 0, maxTabs |-> 1000]}

NextCap ==
  \/ \E id \in TabIds, pinned \in BOOLEAN :
       OpenTab(id, ExampleUrl, ExampleTitle, pinned, FALSE, "")
  \/ \E id \in TabIds : OpenTab(id, AboutUrl, OtherTitle, FALSE, FALSE, "")
  \/ \E settings \in CapSettings \cup {[excludePinned |-> TRUE]} :
       ~Busy /\ MsgUpdateSettings(NewSlot, settings, TRUE)
  \/ \E slot \in Slots : UpdateSettingsStored(slot)
  \/ \E slot \in Slots : UpdateSettingsRespond(slot)
  \/ \E order \in Orders(DOMAIN tabs) :
       ~Busy /\ MsgPerformBackup(NewSlot, order)
  \/ \E slot \in Slots : PassResume(slot, TRUE, TRUE, TRUE)
  \/ \E slot \in Slots : PassFinish(slot, TRUE)

SpecCap == Init /\ [][NextCap]_vars

(* the tabs of a snapshot the pass would upsert if there were no cap *)
Qualifying(snap, td, s, t) ==
  {i \in DOMAIN snap :
     /\ PassesChecks(snap[i], s)
     /\ ~(s.minDays >= 0 /\ RecordAge(td, snap[i].id, t) < s.minDays * DayMs)}

(* C5: a pass never upserts more than maxTabs records, and upserts exactly *)
(* maxTabs when more than maxTabs open tabs qualify, for every maxTabs the *)
(* background can hold                                                     *)
C5_CountWithinCap ==
  [][\A slot \in Slots : LoopRuns(slot) =>
       LET n == Cardinality(Qualifying(tasks[slot].snap, tabData,
                                       currentSettings, now))
       IN /\ tasks'[slot].count <= currentSettings.maxTabs
          /\ n > currentSettings.maxTabs
               => tasks'[slot].count = currentSettings.maxTabs]_vars

(* the same for a cap of at least 1 *)
C5_CountWithinPositiveCap ==
  [][\A slot \in Slots :
       (LoopRuns(slot) /\ currentSettings.maxTabs >= 1) =>
       LET n == Cardinality(Qualifying(tasks[slot].snap, tabData,
                                       currentSettings, now))
       IN /\ tasks'[slot].count <= currentSettings.maxTabs
          /\ n > currentSettings.maxTabs
               => tasks'[slot].count = currentSettings.maxTabs
          /\ n <= currentSettings.maxTabs => tasks'[slot].count = n]_vars

----------------------------------------------------------------------------
(* SpecStore: the background and the dashboard write the stored tabData *)

NextStore ==
  \/ OpenTab(1, ExampleUrl, ExampleTitle, FALSE, FALSE, "")
  \/ \E id \in TabIds \ {1} :
       OpenTab(id, OtherUrl, OtherTitle, FALSE, FALSE, "")
  \/ \E id \in TabIds : HandleTabUpdate(id, "complete", TRUE)
  \/ \E id \in TabIds : HandleTabRemoved(id, TRUE)
  \/ /\ ~Busy
     /\ currentSettings.minDays # 0
     /\ MsgUpdateSettings(NewSlot, [minDays |-> 0], TRUE)
  \/ \E slot \in Slots : UpdateSettingsStored(slot)
  \/ \E slot \in Slots : UpdateSettingsRespond(slot)
  \/ \E order \in Orders(DOMAIN tabs) :
       ~Busy /\ MsgPerformBackup(NewSlot, order)
  \/ \E slot \in Slots : PassResume(slot, TRUE, TRUE, TRUE)
  \/ \E slot \in Slots : PassFinish(slot, TRUE)
  \/ LoadTabLog(KeysInOrder(DOMAIN tabs))
  \/ \E i \in DOMAIN dash.rows : dash.rows[i].logged /\ CheckRow(i)
  \/ AddRemoveRead
  \/ AddRemoveWrite(TRUE, KeysInOrder(DOMAIN tabs))
  \/ RemoveAllLogs(TRUE, KeysInOrder(DOMAIN tabs))

SpecStore == Init /\ [][NextStore]_vars

(* A step in which tabs.onRemoved is handled for identifier id *)
TabRemovedStep(id) == Has(tabs, id) /\ ~Has(tabs', id)

(* C6: handling a tab-removed event for an identifier that has a record    *)
(* deletes that record from the stored tabData and leaves every other      *)
(* stored record unchanged; for an identifier without a record the stored  *)
(* tabData is unchanged                                                    *)
C6_RemovalFrame ==
  [][\A id \in TabIds : TabRemovedStep(id) =>
       IF Has(tabData, id)
         THEN storage'.tabData = Del(storage.tabData, id)
         ELSE storage'.tabData = storage.tabData]_vars

(* the same when the stored tabData equals the background's map before it *)
C6_RemovalFrameInSync ==
  [][\A id \in TabIds :
       (TabRemovedStep(id) /\ storage.tabData = tabData) =>
       IF Has(tabData, id)
         THEN storage'.tabData = Del(storage.tabData, id)
         ELSE storage'.tabData = storage.tabData]_vars

(* C7: a record removed through the dashboard while no background handler  *)
(* is in progress is not in the stored tabData again after a later         *)
(* background write, unless the tracker or a pass has observed its tab as  *)
(* qualifying since                                                        *)
C7_RemovedStayRemoved == \A id \in removed : ~Has(storage.tabData, id)

----------------------------------------------------------------------------
(* SpecAlarm: the automaticBackup alarm fires as time passes *)

MaxAlarmDay == 3   \* the clock of SpecAlarm stops at this day

AlarmStepHours == {5, 19}

AlarmDays == {{"Fri"}, {"Sat"}}

(* the options form with automatic backup enabled on the given weekdays *)
AlarmForm(days) ==
  [minDays |-> <<1>>, maxTabs |-> <<>>, autoBackupEnabled |-> TRUE,
   backupTime |-> <<5, 0>>, backupDays |-> days, toleranceHours |-> <<>>,
   excludePrivate |-> TRUE, excludePinned |-> FALSE, maxTitleLength |-> <<>>,
   theme |-> "auto"]

(* The state after the options page has saved the form on the first day *)
AfterOptionsSave(form) ==
  /\ now = DayMs
  /\ tabs = EmptyObj
  /\ currentSettings = Merge(DEFAULT_SETTINGS, CollectSettings(form))
  /\ tabData = EmptyObj
  /\ lastAutomaticBackup = NULL
  /\ storage = [EmptyStorage EXCEPT !.settings = <<CollectSettings(form)>>]
  /\ alarms = AlarmsCreate(<<>>, AlarmName,
                           NextBackupTime(DayMs, form.backupTime), DayMinutes)
  /\ tasks = NoTasks
  /\ response = [type |-> "updateSettings", success |-> TRUE]
  /\ dash = [pc |-> "idle", rows |-> <<>>, checked |-> {}, data |-> EmptyObj,
             nextId |-> 0, quiet |-> TRUE]
  /\ opts = OptionsIdle("success")
  /\ listening = TRUE
  /\ removed = {}
  /\ ui = NoUi

InitAlarm == \E days \in AlarmDays : AfterOptionsSave(AlarmForm(days))

NextAlarm ==
  \/ \E h \in AlarmStepHours :
       now + (h * HourMs) <= MaxAlarmDay * DayMs /\ Tick(h * HourMs)
  \/ now = DayMs /\ OpenTab(1, ExampleUrl, ExampleTitle, FALSE, FALSE, "")
  \/ HandleTabUpdate(1, "complete", TRUE)
  \/ \E i \in DOMAIN alarms, fromNow \in BOOLEAN :
       AlarmFires(i, IF FreeSlots = {} THEN 1 ELSE NewSlot,
                  KeysInOrder(DOMAIN tabs), fromNow)
  \/ \E slot \in Slots : PassResume(slot, TRUE, TRUE, TRUE)
  \/ \E slot \in Slots : PassFinish(slot, TRUE)

SpecAlarm == InitAlarm /\ [][NextAlarm]_vars

(* A step in which the host delivers a fire of the automaticBackup alarm *)
AlarmFireStep ==
  /\ \E i \in DOMAIN alarms :
       alarms[i].name = AlarmName /\ alarms[i].when <= now
  /\ alarms' # alarms
  /\ opts' = opts
  /\ \A s \in Slots :
       tasks[s].kind \in {"updateSettings", "init"} => tasks'[s] = tasks[s]

(* the fire's handler returns at once: no pass, nothing written *)
FireIsNoOp ==
  /\ tasks' = tasks
  /\ tabData' = tabData
  /\ lastAutomaticBackup' = lastAutomaticBackup
  /\ storage' = storage

(* C8: when the automaticBackup alarm fires on a weekday that is not in    *)
(* backupDays, no pass starts, so no record is upserted, and tabData and    *)
(* lastAutomaticBackup, in memory and stored, are unchanged                 *)
C8_WrongDayFireIsNoOp ==
  [][(AlarmFireStep /\ Today(now) \notin currentSettings.backupDays)
       => FireIsNoOp]_vars

(* the alarm has just fired on a weekday that is not selected, with a      *)
(* recorded tab open that a pass would refresh                             *)
C8_Witness ==
  /\ \E i \in DOMAIN alarms :
       /\ alarms[i].name = AlarmName
       /\ alarms[i].when = now + (DayMinutes * MinuteMs)
  /\ Today(now) \notin currentSettings.backupDays
  /\ Has(tabs, 1) /\ Has(tabData, 1)
  /\ tabData[1].lastUpdated < now
  /\ tasks = NoTasks
  /\ lastAutomaticBackup = NULL

(* an automaticBackup fire on a selected weekday started a pass or set     *)
(* lastAutomaticBackup less than toleranceHours before now                 *)
RecentFire ==
  \/ Truthy(lastAutomaticBackup)
       /\ now - lastAutomaticBackup < currentSettings.toleranceHours * HourMs
  \/ \E s \in Slots :
       /\ tasks[s].kind = "alarm"
       /\ now - tasks[s].now < currentSettings.toleranceHours * HourMs

(* C9: a fire of the automaticBackup alarm on a selected weekday, less     *)
(* than toleranceHours after an earlier such fire, starts no pass and      *)
(* changes neither tabData nor lastAutomaticBackup, also when the earlier   *)
(* fire's handler has not finished                                         *)
C9_SecondFireIsNoOp ==
  [][(AlarmFireStep /\ Today(now) \in currentSettings.backupDays
        /\ RecentFire) => FireIsNoOp]_vars

(* the same for an earlier fire whose handler has finished *)
C9_SecondFireAfterFirstFinished ==
  [][(AlarmFireStep /\ Today(now) \in currentSettings.backupDays
        /\ Truthy(lastAutomaticBackup)
        /\ now - lastAutomaticBackup < currentSettings.toleranceHours * HourMs)
       => FireIsNoOp]_vars

----------------------------------------------------------------------------
(* SpecTimer: the background script starts, settings are saved and sent *)

(* the settings a previous session left in the store, if any *)
StartSettings == {<<>>, <<CollectSettings(AlarmForm({"Fri"}))>>}

(* The background script has been evaluated: both initialize() calls have *)
(* run to their first await, the read of the settings                     *)
InitLoaded ==
  /\ now = DayMs
  /\ tabs = EmptyObj
  /\ currentSettings = DEFAULT_SETTINGS
  /\ tabData = EmptyObj
  /\ lastAutomaticBackup = NULL
  /\ \E st \in StartSettings :
       /\ storage = [EmptyStorage EXCEPT !.settings = st]
       /\ tasks = [s \in Slots |->
                     IF s <= 2
                       THEN TaskOf("init", "loadSettings", "script", st)
                       ELSE Idle]
  /\ alarms = <<>>
  /\ response = NoResponse
  /\ dash = [pc |-> "idle", rows |-> <<>>, checked |-> {}, data |-> EmptyObj,
             nextId |-> 0, quiet |-> TRUE]
  /\ opts = OptionsIdle("none")
  /\ listening = FALSE
  /\ removed = {}
  /\ ui = NoUi

TimerForms ==
  {AlarmForm(days) : days \in AlarmDays}
    \cup {[AlarmForm({"Fri"}) EXCEPT !.autoBackupEnabled = FALSE]}

TimerSettings == {[autoBackupEnabled |-> TRUE], [autoBackupEnabled |-> FALSE]}

NextTimer ==
  \/ \E slot \in Slots : InitializeSettings(slot, TRUE)
  \/ \E slot \in Slots : InitializeTabData(slot, TRUE)
  \/ \E slot \in Slots, accepts \in BOOLEAN : ScheduleCreate(slot, accepts)
  \/ \E settings \in TimerSettings :
       FreeSlots # {} /\ MsgUpdateSettings(NewSlot, settings, TRUE)
  \/ \E slot \in Slots : UpdateSettingsStored(slot)
  \/ \E slot \in Slots : UpdateSettingsRespond(slot)
  \/ \E form \in TimerForms : OptionsSave(form, TRUE)
  \/ OptionsSend(IF FreeSlots = {} THEN 1 ELSE NewSlot, TRUE)
  \/ \E cok \in BOOLEAN : OptionsSchedule(cok)

SpecTimer == InitLoaded /\ [][NextTimer]_vars

----------------------------------------------------------------------------
(* SpecRead: the three readers of the stored settings *)

(* options.js: DEFAULT_SETTINGS *)
OptionsDefaults ==
  [minDays |-> 7, maxTabs |-> 1000, autoBackupEnabled |-> FALSE,
   backupTime |-> <<5, 0>>, backupDays |-> {"Mon"}, toleranceHours |-> 12,
   excludePrivate |-> TRUE, excludePinned |-> FALSE, maxTitleLength |-> 100,
   theme |-> "auto"]

(* tabs.js: the DEFAULT_SETTINGS of getSettings *)
DashDefaults ==
  [minDays |-> -1, maxTabs |-> 1000, autoBackupEnabled |-> FALSE,
   backupTime |-> <<5, 0>>, backupDays |-> {"Mon"}, toleranceHours |-> 12,
   excludePrivate |-> TRUE, excludePinned |-> FALSE, maxTitleLength |-> 100,
   theme |-> "auto"]

(* result.settings || {} *)
OrEmpty(read) == IF read = <<>> THEN EmptyObj ELSE read[1]

(* options.js loadSettings: mergedSettings, which fills the form *)
OptionsMerged(read) == Merge(OptionsDefaults, OrEmpty(read))

(* tabs.js getSettings *)
GetSettings(read) == Merge(DashDefaults, OrEmpty(read))

(* options.js loadSettings: the read and the filling of the form; a failed *)
(* read shows an error and leaves the form as it is                        *)
OptionsLoadSettings(ok) ==
  /\ opts.pc = "idle"
  /\ IF ok
       THEN /\ ui' = [ui EXCEPT !.form = <<OptionsMerged(storage.settings)>>]
            /\ UNCHANGED opts
       ELSE /\ opts' = [opts EXCEPT !.status = "error"]
            /\ UNCHANGED ui
  /\ UNCHANGED <<now, tabs, currentSettings, tabData, lastAutomaticBackup,
                 storage, alarms, tasks, response, dash, removed, listening>>

(* tabs.js updateHeaderCaption: const settings = await getSettings() *)
DashGetSettings ==
  /\ ui' = [ui EXCEPT !.settings = <<GetSettings(storage.settings)>>]
  /\ UNCHANGED <<now, tabs, currentSettings, tabData, lastAutomaticBackup,
                 storage, alarms, tasks, response, dash, opts, removed,
                 listening>>

(* a value for every option, none of them a default *)
StoredValues ==
  [minDays |-> 30, maxTabs |-> 50, autoBackupEnabled |-> TRUE,
   backupTime |-> <<6, 30>>, backupDays |-> {"Tue", "Sat"},
   toleranceHours |-> 6, excludePrivate |-> FALSE, excludePinned |-> TRUE,
   maxTitleLength |-> 20, theme |-> "dark"]

(* the partial settings objects: any subset of the option keys *)
Partial(keys) == [k \in keys |-> StoredValues[k]]

(* The background script has been evaluated over a store that holds a     *)
(* partial settings object, or none                                        *)
InitRead ==
  /\ now = DayMs
  /\ tabs = EmptyObj
  /\ currentSettings = DEFAULT_SETTINGS
  /\ tabData = EmptyObj
  /\ lastAutomaticBackup = NULL
  /\ \E st \in {<<>>} \cup {<<Partial(keys)>> :
                              keys \in SUBSET DOMAIN StoredValues} :
       /\ storage = [EmptyStorage EXCEPT !.settings = st]
       /\ tasks = [s \in Slots |->
                     IF s <= 2
                       THEN TaskOf("init", "loadSettings", "script", st)
                       ELSE Idle]
  /\ alarms = <<>>
  /\ response = NoResponse
  /\ dash = [pc |-> "idle", rows |-> <<>>, checked |-> {}, data |-> EmptyObj,
             nextId |-> 0, quiet |-> TRUE]
  /\ opts = OptionsIdle("none")
  /\ listening = FALSE
  /\ removed = {}
  /\ ui = NoUi

NextRead ==
  \/ \E slot \in Slots : InitializeSettings(slot, TRUE)
  \/ \E slot \in Slots : InitializeTabData(slot, TRUE)
  \/ \E slot \in Slots : ScheduleCreate(slot, TRUE)
  \/ OptionsLoadSettings(TRUE)
  \/ DashGetSettings

SpecRead == InitRead /\ [][NextRead]_vars

(* the background has loaded its settings *)
BackgroundLoaded ==
  listening \/ \E slot \in Slots :
                 tasks[slot].kind = "init" /\ tasks[slot].pc # "loadSettings"

(* result has every key of defaults, the stored value of every stored key *)
(* and the default of every other key                                     *)
MergedOver(result, defaults, stored) ==
  /\ DOMAIN defaults \subseteq DOMAIN result
  /\ \A k \in DOMAIN stored : result[k] = stored[k]
  /\ \A k \in DOMAIN defaults \ DOMAIN stored : result[k] = defaults[k]

(* C11: for every partial settings object in the store, the settings a     *)
(* successful read produces (background loadSettings, options              *)
(* loadSettings, dashboard getSettings) have every default key, each       *)
(* stored key with the stored value and each missing key with the reader's *)
(* default                                                                 *)
C11_ReadsMergeDefaults ==
  LET stored == OrEmpty(storage.settings)
  IN /\ BackgroundLoaded => MergedOver(currentSettings, DEFAULT_SETTINGS, stored)
     /\ ui.form # <<>> => MergedOver(ui.form[1], OptionsDefaults, stored)
     /\ ui.settings # <<>> => MergedOver(ui.settings[1], DashDefaults, stored)

(* all three readers have read a store that holds some keys and lacks others *)
C11_Witness ==
  /\ BackgroundLoaded /\ ui.form # <<>> /\ ui.settings # <<>>
  /\ storage.settings # <<>>
  /\ DOMAIN storage.settings[1] = {"minDays", "theme"}
  /\ currentSettings.minDays = 30 /\ currentSettings.maxTabs = 1000
  /\ ui.form[1].theme = "dark" /\ ui.settings[1].toleranceHours = 12

----------------------------------------------------------------------------
(* SpecSave: the user fills in the options form and saves it *)

(* the user edits the fields of the options form *)
EditForm(form) ==
  /\ opts.pc = "idle"
  /\ ui.entered # <<form>>
  /\ ui' = [ui EXCEPT !.entered = <<form>>]
  /\ UNCHANGED <<now, tabs, currentSettings, tabData, lastAutomaticBackup,
                 storage, alarms, tasks, response, dash, opts, removed,
                 listening>>

(* forms with one number field differing from a form that is in range *)
SaveForms ==
  LET base == [AlarmForm({"Fri"}) EXCEPT !.maxTabs = <<50>>,
                                        !.toleranceHours = <<6>>]
  IN {base, [base EXCEPT !.autoBackupEnabled = FALSE]}
       \cup {[base EXCEPT !.minDays = f] : f \in {<<>>, <<0>>, <<-1>>, <<366>>}}
       \cup {[base EXCEPT !.maxTabs = f] : f \in {<<0>>, <<1001>>}}
       \cup {[base EXCEPT !.toleranceHours = f] : f \in {<<0>>, <<25>>}}

NextSave ==
  \/ \E form \in SaveForms : EditForm(form)
  \/ \E ok \in BOOLEAN : ui.entered # <<>> /\ OptionsSave(ui.entered[1], ok)
  \/ \E ok \in BOOLEAN :
       OptionsSend(IF FreeSlots = {} THEN 1 ELSE NewSlot, ok)
  \/ \E slot \in Slots : UpdateSettingsStored(slot)
  \/ \E slot \in Slots, accepts \in BOOLEAN : ScheduleCreate(slot, accepts)
  \/ \E slot \in Slots : UpdateSettingsRespond(slot)
  \/ \E cok \in BOOLEAN : OptionsSchedule(cok)

SpecSave == Init /\ [][NextSave]_vars

(* a number entered in the field lies outside lo..hi *)
Outside(field, lo, hi) == field # <<>> /\ (field[1] < lo \/ field[1] > hi)

EnteredOutOfRange(form) ==
  \/ Outside(form.minDays, 1, 365)
  \/ Outside(form.maxTabs, 1, 1000)
  \/ Outside(form.toleranceHours, 1, 24)

(* a step of the options page's save button while the page is idle *)
SaveClicked == opts.pc = "idle" /\ opts' # opts /\ ui.entered # <<>>

(* the save is blocked: an error is shown and nothing is written *)
SaveBlocked ==
  /\ opts' = OptionsIdle("error")
  /\ storage' = storage
  /\ currentSettings' = currentSettings
  /\ alarms' = alarms
  /\ tasks' = tasks

(* C12: a save whose entered minimum days, maximum tabs or tolerance hours *)
(* is outside [1,365], [1,1000], [1,24] is blocked, the entered value 0    *)
(* included: nothing is written, and the stored settings, the background's *)
(* settings and the alarm are unchanged                                    *)
C12_OutOfRangeSaveBlocked ==
  [][(SaveClicked /\ EnteredOutOfRange(ui.entered[1])) => SaveBlocked]_vars

(* the same for entered values other than 0 *)
C12_NonZeroOutOfRangeBlocked ==
  [][(SaveClicked /\ EnteredOutOfRange(ui.entered[1])
        /\ ui.entered[1].minDays # <<0>> /\ ui.entered[1].maxTabs # <<0>>
        /\ ui.entered[1].toleranceHours # <<0>>) => SaveBlocked]_vars

(* C13: whenever saveSettings ends by reporting an error, whichever step   *)
(* failed, the stored settings equal their value before the save           *)
C13_FailedSaveKeepsSettings ==
  [][(opts.pc # "idle" /\ opts' = OptionsIdle("error"))
       => storage'.settings = ui.before]_vars

(* the same for a save that fails before or at its own storage write *)
C13_BlockedSaveKeepsSettings ==
  [][(SaveClicked /\ opts' = OptionsIdle("error"))
       => storage'.settings = ui'.before]_vars

----------------------------------------------------------------------------
(* SpecFail: passes whose storage write is rejected, beside the tracker *)

NextFail ==
  \/ OpenTab(1, ExampleUrl, ExampleTitle, FALSE, FALSE, "")
  \/ \E id \in TabIds \ {1} :
       OpenTab(id, OtherUrl, OtherTitle, FALSE, FALSE, "")
  \/ \E id \in TabIds : HandleTabUpdate(id, "complete", TRUE)
  \/ \E id \in TabIds : HandleTabRemoved(id, TRUE)
  \/ /\ ~Busy
     /\ currentSettings.minDays # 0
     /\ MsgUpdateSettings(NewSlot, [minDays |-> 0], TRUE)
  \/ \E slot \in Slots : UpdateSettingsStored(slot)
  \/ \E slot \in Slots : UpdateSettingsRespond(slot)
  \/ \E order \in Orders(DOMAIN tabs) :
       ~Busy /\ MsgPerformBackup(NewSlot, order)
  \/ \E slot \in Slots : PassResume(slot, TRUE, FALSE, TRUE)
  \/ \E slot \in Slots : PassFinish(slot, TRUE)

SpecFail == Init /\ [][NextFail]_vars

(* A step in which the loop of a pass runs and its write is rejected *)
PassWriteFails(slot) == LoopRuns(slot) /\ ~tasks'[slot].ok

(* A step in which performBackup returns after a rejected write *)
FailedPassReturns(slot) ==
  tasks[slot].pc = "save" /\ ~tasks[slot].ok /\ tasks'[slot] = Idle

(* Only a pass gives a record a favIconUrl *)
PassWritten(rec) == Has(rec, "favIconUrl")

(* C14: when the storage write of a pass fails, performBackup returns      *)
(* success = false with a message and the stored tabData equals its value  *)
(* before the pass; a later successful write by another handler does not   *)
(* store what the failed pass upserted                                     *)
C14_FailedPassLeavesNoTrace ==
  [][/\ \A slot \in Slots :
          /\ PassWriteFails(slot) => storage'.tabData = storage.tabData
          /\ FailedPassReturns(slot) =>
               /\ response'.success = FALSE
               /\ response'.message # ""
     /\ \A id \in DOMAIN storage'.tabData :
          ~PassWritten(storage'.tabData[id])]_vars

(* the same without the later write: the failed pass itself stores nothing *)
(* and returns success = false with a message                              *)
C14_FailedPassWritesNothing ==
  [][\A slot \in Slots :
       /\ PassWriteFails(slot) => storage'.tabData = storage.tabData
       /\ FailedPassReturns(slot) =>
            /\ response'.success = FALSE
            /\ response'.message # ""]_vars

----------------------------------------------------------------------------
(* Background: handleMessage, the actions that only read *)

(* sendResponse({ count: Object.keys(tabData).length }) *)
TabCountResponse == [type |-> "count", count |-> Cardinality(DOMAIN tabData)]

(* sendResponse({ settings: currentSettings }) *)
SettingsResponse == [type |-> "settings", settings |-> currentSettings]

(* sendResponse(status): nextBackup stays null, an Alarm has no length *)
StatusResponse(tabCount, lastBackup, enabled) ==
  [type |-> "status", tabCount |-> tabCount, lastBackup |-> lastBackup,
   autoBackupEnabled |-> enabled, nextBackup |-> NULL]

(* sendResponse({ error: 'Unknown action' }) *)
UnknownAction == [type |-> "error", error |-> "Unknown action"]

(* What runtime.sendMessage resolves with in the sender: the value given to *)
(* sendResponse (kept), or the value of the listener's promise, which is    *)
(* true and not an object                                                   *)
NotAnObject == [type |-> "true"]

Delivered(resp, kept) == IF kept THEN resp ELSE NotAnObject

IsObject(resp) == resp # NotAnObject

----------------------------------------------------------------------------
(* Popup *)

(* loadBackupStatus with automatic backups disabled: both handlers answer   *)
(* without waiting; currentTabCount = countResponse.count, undefined (NULL) *)
(* when the response is not an object                                       *)
LoadBackupStatus(kept) ==
  /\ listening
  /\ ~currentSettings.autoBackupEnabled
  /\ response' = TabCountResponse
  /\ ui' = [ui EXCEPT !.popup = "idle",
                      !.currentTabCount =
                        IF kept THEN TabCountResponse.count ELSE NULL]
  /\ UNCHANGED <<now, tabs, currentSettings, tabData, lastAutomaticBackup,
                 storage, alarms, tasks, dash, opts, removed, listening>>

(* DOMContentLoaded *)
PopupOpen(kept) == ui.popup = "closed" /\ LoadBackupStatus(kept)

(* await loadBackupStatus() after a successful backup *)
PopupReload(kept) == ui.popup = "reload" /\ LoadBackupStatus(kept)

(* performManualBackup up to its await: the message starts a pass *)
PerformManualBackup(slot, order) ==
  /\ ui.popup = "idle"
  /\ listening
  /\ PassStart(slot, "message", 0, order)
  /\ ui' = [ui EXCEPT !.popup = "wait"]
  /\ UNCHANGED <<now, tabs, currentSettings, tabData, lastAutomaticBackup,
                 storage, alarms, response, dash, opts, removed, listening>>

(* what performManualBackup shows for the response it got *)
PopupMessage(got, count) ==
  IF ~IsObject(got)
    THEN IF count # NULL /\ count > 0 THEN <<>>
         ELSE <<"error", "No tabs to back up.">>
  ELSE IF got.success
    THEN IF got.count = 0 THEN <<"success", got.message>>
         ELSE <<"success", "Backup completed!">>
  ELSE <<"error", got.message>>

(* performManualBackup after its await *)
PopupReceives(kept) ==
  /\ ui.popup = "wait"
  /\ ~Busy
  /\ response.type = "backup"
  /\ LET got == Delivered(response, kept)
     IN ui' = [ui EXCEPT !.got = got,
                         !.message = PopupMessage(got, ui.currentTabCount),
                         !.popup = IF IsObject(got) /\ got.success
                                     THEN "reload" ELSE "idle"]
  /\ UNCHANGED <<now, tabs, currentSettings, tabData, lastAutomaticBackup,
                 storage, alarms, tasks, response, dash, opts, removed,
                 listening>>

----------------------------------------------------------------------------
(* SpecPopup: manual backups from the popup *)

NextPopup ==
  \/ OpenTab(1, ExampleUrl, ExampleTitle, FALSE, FALSE, "")
  \/ \E id \in TabIds \ {1} :
       OpenTab(id, OtherUrl, OtherTitle, FALSE, FALSE, "")
  \/ \E id \in TabIds : HandleTabRemoved(id, TRUE)
  \/ /\ ~Busy
     /\ currentSettings.minDays # 0
     /\ MsgUpdateSettings(NewSlot, [minDays |-> 0], TRUE)
  \/ \E slot \in Slots : UpdateSettingsStored(slot)
  \/ \E slot \in Slots : UpdateSettingsRespond(slot)
  \/ \E kept \in BOOLEAN : PopupOpen(kept)
  \/ \E order \in Orders(DOMAIN tabs) :
       ~Busy /\ PerformManualBackup(NewSlot, order)
  \/ \E slot \in Slots, wok \in BOOLEAN : PassResume(slot, TRUE, wok, TRUE)
  \/ \E slot \in Slots : PassFinish(slot, TRUE)
  \/ \E kept \in BOOLEAN : PopupReceives(kept)
  \/ \E kept \in BOOLEAN : PopupReload(kept)

SpecPopup == Init /\ [][NextPopup]_vars

(* A step in which performBackup returns after its write succeeded *)
PassReturns(slot) ==
  tasks[slot].pc = "save" /\ tasks[slot].ok /\ tasks'[slot] = Idle

(* A step in which the popup receives the answer to a pass that upserted *)
(* nothing                                                                *)
PopupGetsEmptyPass ==
  /\ ui.popup = "wait"
  /\ ui'.popup # "wait"
  /\ response.success
  /\ response.count = 0

Shown(kind) == ui'.message # <<>> /\ ui'.message[1] = kind

(* C15: a pass returns success = true with a count equal to the number of *)
(* records it upserted; a pass that upserts nothing returns success =     *)
(* true with count 0 and is never reported as a failure                   *)
C15_CountReportedNeverFailure ==
  [][/\ \A slot \in Slots :
          /\ LoopRuns(slot) =>
               tasks'[slot].count =
                 Cardinality(Qualifying(tasks[slot].snap, tabData,
                                        currentSettings, now))
          /\ PassReturns(slot) =>
               /\ response'.success
               /\ response'.count = tasks[slot].count
     /\ PopupGetsEmptyPass => ~Shown("error")]_vars

(* the same when the popup gets the object the background answered *)
C15_CountReportedWhenDelivered ==
  [][/\ \A slot \in Slots :
          /\ LoopRuns(slot) =>
               tasks'[slot].count =
                 Cardinality(Qualifying(tasks[slot].snap, tabData,
                                        currentSettings, now))
          /\ PassReturns(slot) =>
               /\ response'.success
               /\ response'.count = tasks[slot].count
     /\ (PopupGetsEmptyPass /\ IsObject(ui'.got)) => Shown("success")]_vars

----------------------------------------------------------------------------
(* SpecRows: the dashboard's table over tabs and records that share URLs *)

RowUrls == {ExampleUrl, OtherUrl}

NextRows ==
  \/ \E id \in TabIds, url \in RowUrls :
       OpenTab(id, url, ExampleTitle, FALSE, FALSE, "")
  \/ \E id \in TabIds : Navigate(id, AboutUrl, OtherTitle)
  \/ \E id \in TabIds : HandleTabUpdate(id, "complete", TRUE)
  \/ \E id \in TabIds : HandleTabRemoved(id, TRUE)
  \/ /\ ~Busy
     /\ currentSettings.minDays # 0
     /\ MsgUpdateSettings(NewSlot, [minDays |-> 0], TRUE)
  \/ \E slot \in Slots : UpdateSettingsStored(slot)
  \/ \E slot \in Slots : UpdateSettingsRespond(slot)
  \/ \E order \in Orders(DOMAIN tabs) : LoadTabLog(order)

SpecRows == Init /\ [][NextRows]_vars

RowsWithUrl(rows, url) == {i \in DOMAIN rows : rows[i].url = url}

OpenUrls ==
  {tabs[id].url : id \in {i \in DOMAIN tabs : StartsWithHttp(tabs[i].url)}}

StoredUrls == {storage.tabData[id].url : id \in DOMAIN storage.tabData}

(* C16: the table loadTabLog builds never has two rows with the same URL, *)
(* whatever the open tabs and the stored records are (several open tabs   *)
(* or several records with one URL included), and a URL that is open and  *)
(* logged has exactly one row, tagged logged                              *)
C16_OneRowPerUrl ==
  [][dash'.rows # dash.rows =>
       /\ \A i, j \in DOMAIN dash'.rows :
            i # j => dash'.rows[i].url # dash'.rows[j].url
       /\ \A url \in OpenUrls \cap StoredUrls :
            /\ Cardinality(RowsWithUrl(dash'.rows, url)) = 1
            /\ \A i \in RowsWithUrl(dash'.rows, url) :
                 dash'.rows[i].logged]_vars

(* no two stored records have the same URL *)
OneRecordPerUrl ==
  \A a, b \in DOMAIN storage.tabData :
    a # b => storage.tabData[a].url # storage.tabData[b].url

(* the same when no two stored records have the same URL *)
C16_OneRowPerUrlOfDistinctRecords ==
  [][(dash'.rows # dash.rows /\ OneRecordPerUrl) =>
       /\ \A i, j \in DOMAIN dash'.rows :
            i # j => dash'.rows[i].url # dash'.rows[j].url
       /\ \A url \in OpenUrls \cap StoredUrls :
            /\ Cardinality(RowsWithUrl(dash'.rows, url)) = 1
            /\ \A i \in RowsWithUrl(dash'.rows, url) :
                 dash'.rows[i].logged]_vars

----------------------------------------------------------------------------
(* Dashboard: renderTable, exportCSV, exportJSON *)

(* toLowerCase on the letters the titles use *)
LowerChar(c) == IF c = "E" THEN "e" ELSE IF c = "O" THEN "o" ELSE c

ToLowerCase(text) == [i \in DOMAIN text |-> LowerChar(text[i])]

(* the characters of a hostname *)
HostChars(domain) ==
  IF domain = "example.com"
    THEN <<"e", "x", "a", "m", "p", "l", "e", ".", "c", "o", "m">>
  ELSE IF domain = "other.org"
    THEN <<"o", "t", "h", "e", "r", ".", "o", "r", "g">>
  ELSE <<>>

(* text.includes(part) *)
Includes(text, part) ==
  \E i \in 0..Len(text) :
    i + Len(part) <= Len(text) /\ SubSeq(text, i + 1, i + Len(part)) = part

RowMatches(row, filter) ==
  \/ row.title # <<>> /\ Includes(ToLowerCase(row.title), ToLowerCase(filter))
  \/ row.domain # "" /\ Includes(HostChars(row.domain), ToLowerCase(filter))

(* if (currentFilter) rows = rows.filter(...) *)
FilterRows(rows, filter) ==
  IF filter = <<>> THEN rows
  ELSE SelectSeq(rows, LAMBDA row : RowMatches(row, filter))

Bit(b) == IF b THEN 1 ELSE 0

(* the comparator of renderTable for the numeric keys and for 'logged' *)
CompareRows(a, b, sort) ==
  IF sort.key = "logged"
    THEN IF sort.dir = "asc" THEN Bit(b.logged) - Bit(a.logged)
                             ELSE Bit(a.logged) - Bit(b.logged)
  ELSE IF a[sort.key] < b[sort.key] THEN IF sort.dir = "asc" THEN -1 ELSE 1
  ELSE IF a[sort.key] > b[sort.key] THEN IF sort.dir = "asc" THEN 1 ELSE -1
  ELSE 0

(* row goes behind the rows of sorted that do not compare greater *)
InsertRow(sorted, row, sort) ==
  LET keep == {i \in DOMAIN sorted : CompareRows(sorted[i], row, sort) <= 0}
      n == IF keep = {} THEN 0 ELSE CHOOSE i \in keep : \A j \in keep : j <= i
  IN SubSeq(sorted, 1, n) \o <<row>> \o SubSeq(sorted, n + 1, Len(sorted))

(* rows.slice().sort(...): the sort is stable *)
RECURSIVE SortRows(_, _)
SortRows(rows, sort) ==
  IF rows = <<>> THEN <<>>
  ELSE InsertRow(SortRows(SubSeq(rows, 1, Len(rows) - 1), sort),
                 rows[Len(rows)], sort)

(* the rows renderTable puts in the table *)
RenderedRows(rows, filter, sort) == SortRows(FilterRows(rows, filter), sort)

(* d.toLocaleDateString() + ' ' + d.toLocaleTimeString() *)
FormatDate(ts) == <<ts \div DayMs, ts % DayMs>>

Quote == "\""

(* title.replace(/"/g, '""') *)
RECURSIVE CsvTitle(_)
CsvTitle(title) ==
  IF title = <<>> THEN <<>>
  ELSE (IF Head(title) = Quote THEN <<Quote, Quote>> ELSE <<Head(title)>>)
         \o CsvTitle(Tail(title))

CsvLine(row) ==
  [title |-> CsvTitle(row.title), domain |-> row.domain,
   opened |-> FormatDate(row.createdAt), ageInDays |-> row.ageInDays,
   url |-> row.url]

JsonObject(row) ==
  [title |-> row.title, domain |-> row.domain,
   opened |-> FormatDate(row.createdAt), ageInDays |-> row.ageInDays,
   url |-> row.url]

(* tabRows after renderTable has run in place of the copy: without a *)
(* filter the sort would reorder tabRows itself                      *)
RenderTable_InPlace(rows, filter, sort) ==
  IF filter = <<>> THEN SortRows(rows, sort) ELSE rows

(* tabRows after renderTable has run: the filter builds a new array and *)
(* the sort works on rows.slice(), so tabRows is as it was              *)
RenderTable(rows, filter, sort) == rows

(* the search box: currentFilter = e.target.value; renderTable() *)
SetFilter(filter) ==
  /\ ui.currentFilter # filter
  /\ ui' = [ui EXCEPT !.currentFilter = filter]
  /\ dash' = [dash EXCEPT !.rows = RenderTable(@, filter, ui.currentSort)]
  /\ UNCHANGED <<now, tabs, currentSettings, tabData, lastAutomaticBackup,
                 storage, alarms, tasks, response, opts, removed, listening>>

(* a click on a column header: the direction flips on the current key, *)
(* another key starts ascending; renderTable()                         *)
ClickSort(key) ==
  LET sort == IF ui.currentSort.key = key
                THEN [key |-> key,
                      dir |-> IF ui.currentSort.dir = "asc" THEN "desc"
                                                           ELSE "asc"]
                ELSE [key |-> key, dir |-> "asc"]
  IN /\ ui' = [ui EXCEPT !.currentSort = sort]
     /\ dash' = [dash EXCEPT !.rows = RenderTable(@, ui.currentFilter, sort)]
     /\ UNCHANGED <<now, tabs, currentSettings, tabData, lastAutomaticBackup,
                    storage, alarms, tasks, response, opts, removed,
                    listening>>

(* exportCSV: one line for each row of tabRows *)
ExportCSV ==
  /\ ui' = [ui EXCEPT !.exported =
              <<[format |-> "csv",
                 rows |-> [i \in DOMAIN dash.rows |-> CsvLine(dash.rows[i])]]>>]
  /\ UNCHANGED <<now, tabs, currentSettings, tabData, lastAutomaticBackup,
                 storage, alarms, tasks, response, dash, opts, removed,
                 listening>>

(* exportJSON: tabRows.map(...) *)
ExportJSON ==
  /\ ui' = [ui EXCEPT !.exported =
              <<[format |-> "json",
                 rows |-> [i \in DOMAIN dash.rows |->
                             JsonObject(dash.rows[i])]]>>]
  /\ UNCHANGED <<now, tabs, currentSettings, tabData, lastAutomaticBackup,
                 storage, alarms, tasks, response, dash, opts, removed,
                 listening>>

----------------------------------------------------------------------------
(* SpecExport: the dashboard's filter, sort and exports *)

Filters == {<<>>, <<"e", "x">>, <<"O", "t">>, <<"z">>}

SortKeys == {"createdAt", "ageInDays", "logged"}

NextExport ==
  \/ OpenTab(1, ExampleUrl, ExampleTitle, FALSE, FALSE, "")
  \/ \E id \in TabIds \ {1} :
       OpenTab(id, OtherUrl, OtherTitle, FALSE, FALSE, "")
  \/ \E order \in Orders(DOMAIN tabs) : LoadTabLog(order)
  \/ \E filter \in Filters : SetFilter(filter)
  \/ \E key \in SortKeys : ClickSort(key)
  \/ ExportCSV
  \/ ExportJSON

SpecExport == Init /\ [][NextExport]_vars

Range(seq) == {seq[i] : i \in DOMAIN seq}

(* the title, domain, opened time, age in days and URL of a row *)
RowFields(row) ==
  [title |-> row.title, domain |-> row.domain,
   opened |-> FormatDate(row.createdAt), ageInDays |-> row.ageInDays,
   url |-> row.url]

VisibleRows == RenderedRows(dash.rows, ui.currentFilter, ui.currentSort)

(* C17: the CSV and the JSON export emit exactly the rows the table shows *)
(* (those that pass the search filter), each with its title, domain,      *)
(* opened time, age in days and URL, whatever the sort key and direction  *)
C17_ExportsVisibleRows ==
  [][ui'.exported # ui.exported =>
       Range(ui'.exported[1].rows)
         = {RowFields(row) : row \in Range(VisibleRows)}]_vars

(* the same for the rows of tabRows, filtered or not: every export emits *)
(* all of them, whatever the sort key and direction                      *)
C17_ExportsLoadedRows ==
  [][ui'.exported # ui.exported =>
       Range(ui'.exported[1].rows)
         = {RowFields(row) : row \in Range(dash.rows)}]_vars

----------------------------------------------------------------------------
(* SpecTrack: the tracker alone writes tabData *)

(* tabs.onUpdated is delivered and handled; ui.event keeps the event's tab, *)
(* its changeInfo.status and a mark that alternates from event to event     *)
(* (history)                                                                *)
TabUpdated(tabId, status, ok) ==
  /\ TrackTab(tabId, status, ok)
  /\ ui' = [ui EXCEPT !.event =
              <<tabId, status, IF ui.event = <<>> THEN 0 ELSE 1 - ui.event[3]>>]
  /\ UNCHANGED <<now, tabs, currentSettings, lastAutomaticBackup, alarms,
                 tasks, response, dash, opts, listening>>

TrackSettings ==
  {[minDays |-> -1], [minDays |-> 0], [excludePinned |-> TRUE],
   [excludePrivate |-> FALSE]}

TrackStatuses == {"loading", "complete"}

NextTrack ==
  \/ \E d \in StepDays : Tick(d * DayMs)
  \/ \E pinned, incognito \in BOOLEAN :
       OpenTab(1, ExampleUrl, ExampleTitle, pinned, incognito, "")
  \/ \E url \in {AboutUrl, <<>>} :
       OpenTab(2, url, OtherTitle, FALSE, FALSE, "")
  \/ \E id \in TabIds, status \in TrackStatuses, ok \in BOOLEAN :
       TabUpdated(id, status, ok)
  \/ \E settings \in TrackSettings :
       /\ ~Busy
       /\ Merge(currentSettings, settings) # currentSettings
       /\ MsgUpdateSettings(NewSlot, settings, TRUE)
  \/ \E slot \in Slots : UpdateSettingsStored(slot)
  \/ \E slot \in Slots : UpdateSettingsRespond(slot)

SpecTrack == Init /\ [][NextTrack]_vars

(* A step in which tabs.onUpdated is handled for tab id with this status *)
TabUpdatedStep(id, status) ==
  /\ ui'.event # ui.event
  /\ ui'.event[1] = id
  /\ ui'.event[2] = status

(* C19: handleTabUpdate writes a record only if the event's status is      *)
(* complete, the tab has an http or https URL, it is not private while     *)
(* excludePrivate is set, not pinned while excludePinned is set, and its   *)
(* age in days is at least minDays (any age when minDays is negative);     *)
(* when one of these fails tabData and the store are unchanged             *)
C19_TrackerWritesOnlyQualifying ==
  [][\A id \in TabIds, status \in TrackStatuses :
       TabUpdatedStep(id, status) =>
         \/ /\ status = "complete"
            /\ tabs[id].url # <<>>
            /\ tabs[id].url[1] \in {"http", "https"}
            /\ ~(currentSettings.excludePrivate /\ tabs[id].incognito)
            /\ ~(currentSettings.excludePinned /\ tabs[id].pinned)
            /\ \/ currentSettings.minDays < 0
               \/ now - tabs[id].createdAt >= currentSettings.minDays * DayMs
         \/ /\ tabData' = tabData
            /\ storage' = storage]_vars

(* an event for a pinned tab has been handled while pinned tabs are *)
(* excluded, and it left the tab without a record                   *)
C19_Witness ==
  /\ ui.event # <<>>
  /\ ui.event[1] = 1
  /\ ui.event[2] = "complete"
  /\ Has(tabs, 1)
  /\ tabs[1].pinned
  /\ currentSettings.excludePinned
  /\ ~Has(tabData, 1)

----------------------------------------------------------------------------
(* Background: handleMessage, one message at a time *)

(* a page calls runtime.sendMessage({action}): ui.asked is the action of *)
(* the message in flight, and it has no answer yet                       *)
Ask(action) ==
  /\ listening
  /\ ~Busy
  /\ ui.asked = "" \/ ui.got # NoResponse
  /\ ui' = [ui EXCEPT !.asked = action, !.got = NoResponse]
  /\ response' = NoResponse
  /\ UNCHANGED <<now, tabs, currentSettings, tabData, lastAutomaticBackup,
                 storage, alarms, tasks, dash, opts, removed, listening>>

(* the message in flight has not reached handleMessage yet *)
Unhandled(action) == ui.asked = action /\ response = NoResponse /\ ~Busy

(* handleMessage for an action that answers without waiting *)
MsgAnswer(resp) ==
  /\ listening
  /\ response' = resp
  /\ UNCHANGED <<now, tabs, currentSettings, tabData, lastAutomaticBackup,
                 storage, alarms, tasks, dash, opts, removed, listening, ui>>

MsgGetTabCount == MsgAnswer(TabCountResponse)

MsgGetSettings == MsgAnswer(SettingsResponse)

MsgUnknown == MsgAnswer(UnknownAction)

(* case 'getBackupStatus': with automatic backups enabled alarms.get is  *)
(* issued, and the task keeps the status built so far and whether the    *)
(* alarm exists                                                          *)
MsgGetBackupStatus(slot) ==
  /\ listening
  /\ slot \in FreeSlots
  /\ IF currentSettings.autoBackupEnabled
       THEN /\ tasks' = [tasks EXCEPT ![slot] =
                 [TaskOf("getBackupStatus", "get", "page", <<>>)
                    EXCEPT !.count = Cardinality(DOMAIN tabData),
                           !.now = lastAutomaticBackup,
                           !.ok = AlarmsNamed(alarms, AlarmName) # {}]]
            /\ UNCHANGED response
       ELSE /\ response' = StatusResponse(Cardinality(DOMAIN tabData),
                                          lastAutomaticBackup, FALSE)
            /\ UNCHANGED tasks
  /\ UNCHANGED <<now, tabs, currentSettings, tabData, lastAutomaticBackup,
                 storage, alarms, dash, opts, removed, listening, ui>>

(* alarms.get has settled with the Alarm or with undefined: alarms.length *)
(* of undefined throws, and the catch answers with the error              *)
BackupStatusRespond(slot) ==
  /\ tasks[slot].kind = "getBackupStatus"
  /\ response' = IF tasks[slot].ok
                   THEN StatusResponse(tasks[slot].count, tasks[slot].now, TRUE)
                   ELSE ErrorResponse
  /\ tasks' = [tasks EXCEPT ![slot] = Idle]
  /\ UNCHANGED <<now, tabs, currentSettings, tabData, lastAutomaticBackup,
                 storage, alarms, dash, opts, removed, listening, ui>>

(* runtime.sendMessage resolves in the sender *)
SenderReceives(kept) ==
  /\ response # NoResponse
  /\ ui.asked # ""
  /\ ui.got = NoResponse
  /\ ui' = [ui EXCEPT !.got = Delivered(response, kept)]
  /\ UNCHANGED <<now, tabs, currentSettings, tabData, lastAutomaticBackup,
                 storage, alarms, tasks, response, dash, opts, removed,
                 listening>>

----------------------------------------------------------------------------
(* SpecMsg: the messages the background handles *)

KnownActions ==
  {"getTabCount", "performBackup", "getSettings", "updateSettings",
   "getBackupStatus"}

Actions == KnownActions \cup {"ping"}

MsgSettings == {[minDays |-> 0], [autoBackupEnabled |-> TRUE]}

NextMsg ==
  \/ OpenTab(1, ExampleUrl, ExampleTitle, FALSE, FALSE, "")
  \/ HandleTabUpdate(1, "complete", TRUE)
  \/ \E action \in Actions : Ask(action)
  \/ Unhandled("getTabCount") /\ MsgGetTabCount
  \/ Unhandled("getSettings") /\ MsgGetSettings
  \/ Unhandled("ping") /\ MsgUnknown
  \/ Unhandled("getBackupStatus") /\ MsgGetBackupStatus(NewSlot)
  \/ \E slot \in Slots : BackupStatusRespond(slot)
  \/ \E order \in Orders(DOMAIN tabs) :
       Unhandled("performBackup") /\ MsgPerformBackup(NewSlot, order)
  \/ \E slot \in Slots, qok, wok \in BOOLEAN :
       PassResume(slot, qok, wok, TRUE)
  \/ \E slot \in Slots : PassFinish(slot, TRUE)
  \/ \E settings \in MsgSettings, ok \in BOOLEAN :
       Unhandled("updateSettings") /\ MsgUpdateSettings(NewSlot, settings, ok)
  \/ \E slot \in Slots : UpdateSettingsStored(slot)
  \/ \E slot \in Slots, accepts \in BOOLEAN : ScheduleCreate(slot, accepts)
  \/ \E slot \in Slots : UpdateSettingsRespond(slot)
  \/ \E kept \in BOOLEAN : SenderReceives(kept)

SpecMsg == Init /\ [][NextMsg]_vars

(* resp is the answer of the action: its own shape, an error after an *)
(* exception, or {error: 'Unknown action'} for an action not known    *)
AnswerOf(action, resp) ==
  IF action \notin KnownActions THEN resp = UnknownAction
  ELSE \/ resp = ErrorResponse
       \/ action = "getTabCount" /\ DOMAIN resp = {"type", "count"}
       \/ /\ action = "performBackup"
          /\ DOMAIN resp = {"type", "success", "count", "message"}
       \/ action = "getSettings" /\ DOMAIN resp = {"type", "settings"}
       \/ action = "updateSettings" /\ resp = [type |-> "updateSettings",
                                               success |-> TRUE]
       \/ /\ action = "getBackupStatus"
          /\ DOMAIN resp = {"type", "tabCount", "lastBackup",
                            "autoBackupEnabled", "nextBackup"}

(* A step of handleMessage *)
HandlerStep == response' # response \/ tasks' # tasks

(* handleMessage calls sendResponse at most once for a message, and a *)
(* handler that ends has called it                                    *)
AnsweredOnce ==
  /\ (response # NoResponse /\ response' # response) => response' = NoResponse
  /\ (Busy /\ ~Busy') => response' # NoResponse

(* only performBackup and updateSettings change tabData or the settings *)
OnlyWritersWrite ==
  (HandlerStep /\ ui.asked \notin {"performBackup", "updateSettings"}) =>
    /\ tabData' = tabData
    /\ currentSettings' = currentSettings
    /\ storage' = storage

(* C18: every message the background handles gets exactly one response: *)
(* each of the five known actions its own response shape, any other     *)
(* action {error: 'Unknown action'}, an exception in the handler an     *)
(* error response; and no message changes tabData or the settings       *)
(* except performBackup and updateSettings                              *)
C18_EveryMessageOneResponse ==
  [][/\ AnsweredOnce
     /\ (ui'.got # ui.got /\ ui'.got # NoResponse)
          => AnswerOf(ui.asked, ui'.got)
     /\ OnlyWritersWrite]_vars

(* the same for what handleMessage passes to sendResponse *)
C18_HandlerAnswersOnce ==
  [][/\ AnsweredOnce
     /\ (response' # response /\ response' # NoResponse)
          => AnswerOf(ui.asked, response')
     /\ OnlyWritersWrite]_vars

----------------------------------------------------------------------------
(* SpecUrl: the three writers of the stored tabData, with tabs that are *)
(* not at an http or https URL                                          *)

NextUrl ==
  \/ OpenTab(1, ExampleUrl, ExampleTitle, FALSE, FALSE, "")
  \/ OpenTab(2, OtherUrl, OtherTitle, FALSE, FALSE, "")
  \/ Navigate(1, AboutUrl, OtherTitle)
  \/ \E id \in TabIds : HandleTabUpdate(id, "complete", TRUE)
  \/ /\ ~Busy
     /\ currentSettings.minDays # 0
     /\ MsgUpdateSettings(NewSlot, [minDays |-> 0], TRUE)
  \/ \E slot \in Slots : UpdateSettingsStored(slot)
  \/ \E slot \in Slots : UpdateSettingsRespond(slot)
  \/ ~Busy /\ MsgPerformBackup(NewSlot, KeysInOrder(DOMAIN tabs))
  \/ \E slot \in Slots : PassResume(slot, TRUE, TRUE, TRUE)
  \/ \E slot \in Slots : PassFinish(slot, TRUE)
  \/ ~Busy /\ LoadTabLog(KeysInOrder(DOMAIN tabs))
  \/ \E i \in DOMAIN dash.rows : ~dash.rows[i].logged /\ CheckRow(i)
  \/ AddRemoveRead
  \/ AddRemoveWrite(TRUE, KeysInOrder(DOMAIN tabs))

SpecUrl == Init /\ [][NextUrl]_vars

(* C20: in every reachable state every record of the stored tabData has a *)
(* URL that starts with http:// or https://, whether the tracker, a pass  *)
(* or the dashboard's add wrote it                                        *)
C20_StoredUrlsAreHttp ==
  \A id \in DOMAIN storage.tabData :
    /\ storage.tabData[id].url # <<>>
    /\ storage.tabData[id].url[1] \in {"http", "https"}

(* a tab is at about:blank while the store holds a record the dashboard *)
(* added and a record a pass wrote                                      *)
C20_Witness ==
  /\ \E id \in DOMAIN tabs : tabs[id].url = AboutUrl
  /\ \E id \in DashIds : Has(storage.tabData, id)
  /\ \E id \in TabIds :
       Has(storage.tabData, id) /\ Has(storage.tabData[id], "favIconUrl")

----------------------------------------------------------------------------
(* SpecSched: the alarm is scheduled at different times of the day *)

SchedForms ==
  {AlarmForm({"Fri"}), [AlarmForm({"Fri"}) EXCEPT !.backupTime = <<19, 30>>]}

SchedSettings == {[autoBackupEnabled |-> TRUE], [backupTime |-> <<19, 30>>]}

NextSched ==
  \/ \E h \in AlarmStepHours :
       now + (h * HourMs) <= MaxAlarmDay * DayMs /\ Tick(h * HourMs)
  \/ \E settings \in SchedSettings :
       ~Busy /\ MsgUpdateSettings(NewSlot, settings, TRUE)
  \/ \E slot \in Slots : UpdateSettingsStored(slot)
  \/ \E slot \in Slots, accepts \in BOOLEAN : ScheduleCreate(slot, accepts)
  \/ \E slot \in Slots : UpdateSettingsRespond(slot)
  \/ \E form \in SchedForms : ~Busy /\ OptionsSave(form, TRUE)
  \/ OptionsSend(IF FreeSlots = {} THEN 1 ELSE NewSlot, TRUE)
  \/ OptionsSchedule(TRUE)

SpecSched == Init /\ [][NextSched]_vars

(* A step in which alarms.create registers an alarm *)
AlarmRegistered ==
  /\ alarms' # alarms
  /\ alarms' # AlarmsClear(alarms, AlarmName)
  /\ alarms' # <<>>

(* the backup times of the settings a scheduler can be working from *)
ConfiguredTimes ==
  {currentSettings.backupTime}
    \cup {opts.settings[i].backupTime : i \in DOMAIN opts.settings}

(* the alarm fires first after t and not later than a day after t, at one *)
(* of the configured times of day                                         *)
FirstFireWithinADay(alarm, t) ==
  /\ alarm.when > t
  /\ alarm.when <= t + DayMs
  /\ \E bt \in ConfiguredTimes :
       alarm.when % DayMs = (bt[1] * HourMs) + (bt[2] * MinuteMs)

(* C21: every automaticBackup alarm that the background's or the options *)
(* page's scheduleAutomaticBackup registers fires first strictly after   *)
(* the current instant and at most one day after it, at the configured   *)
(* time of day, and has a period of exactly one day                      *)
C21_DailyAlarm ==
  [][AlarmRegistered =>
       /\ alarms'[Len(alarms')].name = AlarmName
       /\ FirstFireWithinADay(alarms'[Len(alarms')], now)
       /\ alarms'[Len(alarms')].period = DayMinutes]_vars

(* the same without the period *)
C21_FirstFire ==
  [][AlarmRegistered =>
       /\ alarms'[Len(alarms')].name = AlarmName
       /\ FirstFireWithinADay(alarms'[Len(alarms')], now)]_vars

(* the same for the alarm the options page registers *)
C21_DailyAlarmOfOptions ==
  [][(AlarmRegistered /\ opts.pc = "answered" /\ opts'.pc = "idle") =>
       /\ FirstFireWithinADay(alarms'[Len(alarms')], now)
       /\ alarms'[Len(alarms')].period = DayMinutes]_vars

----------------------------------------------------------------------------
(* SpecRestart: the background process ends and its script runs again *)

(* The script is evaluated in a fresh process: the module variables have  *)
(* their initial values and both initialize() calls have run to their     *)
(* first await; the store and the registered alarms outlive the process   *)
Restart ==
  /\ listening
  /\ ~Busy
  /\ currentSettings' = DEFAULT_SETTINGS
  /\ tabData' = EmptyObj
  /\ lastAutomaticBackup' = NULL
  /\ tasks' = [s \in Slots |->
                 IF s <= 2
                   THEN TaskOf("init", "loadSettings", "script",
                               storage.settings)
                   ELSE Idle]
  /\ listening' = FALSE
  /\ UNCHANGED <<now, tabs, storage, alarms, response, dash, opts, removed,
                 ui>>

NextRestart ==
  \/ \E h \in AlarmStepHours :
       now + (h * HourMs) <= MaxAlarmDay * DayMs /\ Tick(h * HourMs)
  \/ \E i \in DOMAIN alarms, fromNow \in BOOLEAN :
       AlarmFires(i, IF FreeSlots = {} THEN 1 ELSE NewSlot,
                  KeysInOrder(DOMAIN tabs), fromNow)
  \/ \E slot \in Slots : PassResume(slot, TRUE, TRUE, TRUE)
  \/ \E slot \in Slots : PassFinish(slot, TRUE)
  \/ Restart
  \/ \E slot \in Slots : InitializeSettings(slot, TRUE)
  \/ \E slot \in Slots : InitializeTabData(slot, TRUE)
  \/ \E slot \in Slots, accepts \in BOOLEAN : ScheduleCreate(slot, accepts)

SpecRestart == InitAlarm /\ [][NextRestart]_vars

(* both initialize() calls have finished *)
Initialized == listening /\ \A s \in Slots : tasks[s].kind # "init"

(* C22: after the background restarts, the last-backup time in memory   *)
(* equals the stored one once initialize has finished, so a fire within *)
(* toleranceHours of a backup made before the restart is skipped        *)
C22_LastBackupSurvivesRestart ==
  [][/\ Initialized' => lastAutomaticBackup' = storage'.lastAutomaticBackup
     /\ (AlarmFireStep /\ Today(now) \in currentSettings.backupDays
           /\ storage.lastAutomaticBackup # NULL
           /\ now - storage.lastAutomaticBackup
                < currentSettings.toleranceHours * HourMs)
          => FireIsNoOp]_vars

(* the same while the process lives: a step other than a restart keeps *)
(* the two equal                                                       *)
C22_LastBackupStoredWhenSet ==
  [][(listening' /\ lastAutomaticBackup = storage.lastAutomaticBackup)
       => lastAutomaticBackup' = storage'.lastAutomaticBackup]_vars

----------------------------------------------------------------------------
(* A second dashboard page: ui.other is its table, its checked boxes, the *)
(* mapping its handleAddRemoveCheckedTabs has read, and the identifiers   *)
(* its last completed run deleted (history)                               *)

OtherIdle(rows, gone) ==
  [pc |-> "idle", rows |-> rows, checked |-> {}, data |-> <<>>,
   gone |-> gone]

OtherLoad(order) ==
  /\ ui.other.pc = "idle"
  /\ order \in Orders(DOMAIN tabs)
  /\ ui' = [ui EXCEPT !.other =
              OtherIdle(TabLogRows(storage.tabData, QueryTabs(order), now),
                        ui.other.gone)]
  /\ UNCHANGED <<now, tabs, currentSettings, tabData, lastAutomaticBackup,
                 storage, alarms, tasks, response, dash, opts, removed,
                 listening>>

OtherCheck(i) ==
  /\ ui.other.pc = "idle"
  /\ i \in DOMAIN ui.other.rows
  /\ i \notin ui.other.checked
  /\ ui' = [ui EXCEPT !.other.checked = @ \cup {i}]
  /\ UNCHANGED <<now, tabs, currentSettings, tabData, lastAutomaticBackup,
                 storage, alarms, tasks, response, dash, opts, removed,
                 listening>>

OtherRead ==
  /\ ui.other.pc = "idle"
  /\ ui.other.checked # {}
  /\ ui' = [ui EXCEPT !.other.pc = "read", !.other.data = storage.tabData]
  /\ UNCHANGED <<now, tabs, currentSettings, tabData, lastAutomaticBackup,
                 storage, alarms, tasks, response, dash, opts, removed,
                 listening>>

(* a page that would change the mapping the store holds at the write *)
LoggedTabData_Current(page) == storage.tabData

(* loggedTabData: the mapping the page has read *)
LoggedTabData(page) == page.data

OtherWrite(ok, order) ==
  /\ ui.other.pc = "read"
  /\ order \in Orders(DOMAIN tabs)
  /\ LET r == AddRemoveLoop(ui.other.rows, ui.other.checked, 1,
                            LoggedTabData(ui.other), dash.nextId, {}, now)
     IN /\ storage' = IF r.changes /\ ok
                        THEN [storage EXCEPT !.tabData = r.data]
                        ELSE storage
        /\ ui' = [ui EXCEPT !.other =
                    IF r.changes /\ ok
                      THEN OtherIdle(TabLogRows(r.data, QueryTabs(order), now),
                                     r.gone)
                      ELSE OtherIdle(ui.other.rows, {})]
  /\ UNCHANGED <<now, tabs, currentSettings, tabData, lastAutomaticBackup,
                 alarms, tasks, response, dash, opts, removed, listening>>

----------------------------------------------------------------------------
(* SpecRace: two dashboard pages over two recorded tabs *)

LoggedSettings == Merge(DEFAULT_SETTINGS, [minDays |-> 0])

LoggedTabs ==
  Put(Put(EmptyObj, 1, [id |-> 1, url |-> ExampleUrl, title |-> ExampleTitle,
                        incognito |-> FALSE, pinned |-> FALSE,
                        createdAt |-> DayMs, lastAccessed |-> DayMs,
                        favIconUrl |-> ""]),
      2, [id |-> 2, url |-> OtherUrl, title |-> OtherTitle,
          incognito |-> FALSE, pinned |-> FALSE, createdAt |-> DayMs,
          lastAccessed |-> DayMs, favIconUrl |-> ""])

LoggedRecords ==
  [id \in {1, 2} |-> TrackerRecord(LoggedTabs[id], LoggedSettings, DayMs)]

(* minDays has been set to 0 by a message, tabs 1 and 2 are open and the *)
(* tracker has recorded both                                             *)
InitLogged ==
  /\ now = DayMs
  /\ tabs = LoggedTabs
  /\ currentSettings = LoggedSettings
  /\ tabData = LoggedRecords
  /\ lastAutomaticBackup = NULL
  /\ storage = [EmptyStorage EXCEPT !.settings = <<LoggedSettings>>,
                                    !.tabData = LoggedRecords]
  /\ alarms = <<>>
  /\ tasks = NoTasks
  /\ response = [type |-> "updateSettings", success |-> TRUE]
  /\ dash = [pc |-> "idle", rows |-> <<>>, checked |-> {}, data |-> EmptyObj,
             nextId |-> 0, quiet |-> TRUE]
  /\ opts = OptionsIdle("none")
  /\ listening = TRUE
  /\ removed = {}
  /\ ui = NoUi

NextRace ==
  \/ LoadTabLog(KeysInOrder(DOMAIN tabs))
  \/ \E i \in DOMAIN dash.rows : dash.rows[i].logged /\ CheckRow(i)
  \/ AddRemoveRead
  \/ AddRemoveWrite(TRUE, KeysInOrder(DOMAIN tabs))
  \/ OtherLoad(KeysInOrder(DOMAIN tabs))
  \/ \E i \in DOMAIN ui.other.rows : ui.other.rows[i].logged /\ OtherCheck(i)
  \/ OtherRead
  \/ OtherWrite(TRUE, KeysInOrder(DOMAIN tabs))

SpecRace == InitLogged /\ [][NextRace]_vars

(* C23: handleAddRemoveCheckedTabs writes back the mapping it read with   *)
(* its own changes, whatever has been written since its read, so of two   *)
(* runs that both read before either writes the later write leaves out    *)
(* the change of the earlier one                                          *)
C23_WritesBackItsOwnRead ==
  [][/\ (ui.other.pc = "read" /\ ui'.other.pc = "idle"
           /\ storage' # storage) =>
          storage'.tabData =
            AddRemoveLoop(ui.other.rows, ui.other.checked, 1, ui.other.data,
                          dash.nextId, {}, now).data
     /\ (dash.pc = "read" /\ dash'.pc = "idle" /\ storage' # storage) =>
          storage'.tabData =
            AddRemoveLoop(dash.rows, dash.checked, 1, dash.data, dash.nextId,
                          {}, now).data]_vars

(* both pages have completed a removal, and a record that the first page *)
(* deleted is in the stored tabData, which no other writer has touched   *)
C23_Witness ==
  /\ dash.pc = "idle"
  /\ ui.other.pc = "idle"
  /\ ui.other.gone # {}
  /\ \E id \in removed : Has(storage.tabData, id)

----------------------------------------------------------------------------
(* SpecAdd: the dashboard adds records while no background handler is in *)
(* progress, and the background writes afterwards                        *)

NextAdd ==
  \/ OpenTab(1, ExampleUrl, ExampleTitle, FALSE, FALSE, "")
  \/ OpenTab(2, OtherUrl, OtherTitle, FALSE, FALSE, "")
  \/ \E id \in TabIds : HandleTabUpdate(id, "complete", TRUE)
  \/ \E id \in TabIds : HandleTabRemoved(id, TRUE)
  \/ /\ ~Busy
     /\ dash.pc = "idle"
     /\ currentSettings.minDays # 0
     /\ MsgUpdateSettings(NewSlot, [minDays |-> 0], TRUE)
  \/ \E slot \in Slots : UpdateSettingsStored(slot)
  \/ \E slot \in Slots : UpdateSettingsRespond(slot)
  \/ /\ ~Busy
     /\ dash.pc = "idle"
     /\ MsgPerformBackup(NewSlot, KeysInOrder(DOMAIN tabs))
  \/ \E slot \in Slots : PassResume(slot, TRUE, TRUE, TRUE)
  \/ \E slot \in Slots : PassFinish(slot, TRUE)
  \/ ~Busy /\ LoadTabLog(KeysInOrder(DOMAIN tabs))
  \/ \E i \in DOMAIN dash.rows : ~dash.rows[i].logged /\ CheckRow(i)
  \/ ~Busy /\ AddRemoveRead
  \/ AddRemoveWrite(TRUE, KeysInOrder(DOMAIN tabs))

SpecAdd == Init /\ [][NextAdd]_vars

(* A step in which the background writes the stored tabData *)
BackgroundWrites == storage'.tabData # storage.tabData /\ dash' = dash

(* C24: a record the dashboard added under a generated identifier while  *)
(* no background handler was in progress stays in the stored tabData     *)
(* through every later write of the background (tracker, tab removal,    *)
(* pass)                                                                 *)
C24_AddedRecordStays ==
  [][\A id \in DashIds :
       (Has(storage.tabData, id) /\ BackgroundWrites)
         => Has(storage'.tabData, id)]_vars

----------------------------------------------------------------------------
(* SpecRemove: logged rows removed through the dashboard *)

NextRemove ==
  \/ \E id \in TabIds, url \in RowUrls :
       OpenTab(id, url, ExampleTitle, FALSE, FALSE, "")
  \/ \E id \in TabIds : HandleTabUpdate(id, "complete", TRUE)
  \/ /\ ~Busy /\ dash.pc = "idle" /\ currentSettings.minDays # 0
     /\ MsgUpdateSettings(NewSlot, [minDays |-> 0], TRUE)
  \/ \E slot \in Slots : UpdateSettingsStored(slot)
  \/ \E slot \in Slots : UpdateSettingsRespond(slot)
  \/ ~Busy /\ LoadTabLog(KeysInOrder(DOMAIN tabs))
  \/ \E i \in DOMAIN dash.rows : dash.rows[i].logged /\ CheckRow(i)
  \/ ~Busy /\ AddRemoveRead
  \/ ~Busy /\ AddRemoveWrite(TRUE, KeysInOrder(DOMAIN tabs))

SpecRemove == Init /\ [][NextRemove]_vars

(* the add/remove run of the dashboard completes with its write *)
RemoveCompletes ==
  dash.pc = "read" /\ dash'.pc = "idle" /\ storage'.tabData # storage.tabData

(* C25: when an add/remove run over checked logged rows has written, no   *)
(* stored record has the URL of a row that was checked, and the reloaded  *)
(* table has no row tagged logged with that URL, also when several        *)
(* records share the URL                                                  *)
C25_RemovedUrlNotStored ==
  [][RemoveCompletes =>
       \A i \in dash.checked :
         dash.rows[i].logged =>
           /\ dash.rows[i].url \notin LoggedUrlSet(storage'.tabData)
           /\ \A j \in DOMAIN dash'.rows :
                dash'.rows[j].url = dash.rows[i].url
                  => ~dash'.rows[j].logged]_vars

(* the same when the URL of each checked row has one record in the *)
(* mapping the run read                                            *)
C25_RemovedUrlOfOneRecord ==
  [][RemoveCompletes =>
       \A i \in dash.checked :
         (/\ dash.rows[i].logged
          /\ Cardinality({id \in DOMAIN dash.data :
                            dash.data[id].url = dash.rows[i].url}) = 1) =>
           /\ dash.rows[i].url \notin LoggedUrlSet(storage'.tabData)
           /\ \A j \in DOMAIN dash'.rows :
                dash'.rows[j].url = dash.rows[i].url
                  => ~dash'.rows[j].logged]_vars

----------------------------------------------------------------------------
(* loadTabLog's merged rows against the open tabs and the stored records *)

RowUrlSet(rows) == {rows[i].url : i \in DOMAIN rows}

(* C26: the URLs of the rows loadTabLog builds are the URLs of the open   *)
(* http/https tabs together with the URLs of the stored records, and a    *)
(* row is tagged logged exactly when its URL is that of a stored record   *)
C26_RowsAreOpenAndStored ==
  [][dash'.rows # dash.rows =>
       /\ RowUrlSet(dash'.rows) = OpenUrls' \cup StoredUrls'
       /\ \A i \in DOMAIN dash'.rows :
            dash'.rows[i].logged <=> dash'.rows[i].url \in StoredUrls']_vars

(* a table with a logged row whose URL is not open and an open row that *)
(* is not logged, while a tab shows a page that is not http or https    *)
C26_Witness ==
  /\ \E i, j \in DOMAIN dash.rows :
       /\ dash.rows[i].logged /\ dash.rows[i].url \notin OpenUrls
       /\ ~dash.rows[j].logged /\ dash.rows[j].url \in OpenUrls
  /\ RowUrlSet(dash.rows) = OpenUrls \cup StoredUrls
  /\ \E id \in DOMAIN tabs : ~StartsWithHttp(tabs[id].url)

----------------------------------------------------------------------------
(* SpecView: the dashboard's table is loaded, sorted and filtered while *)
(* a recorded tab closes and opens again on a later day                 *)

NextView ==
  \/ HandleTabRemoved(2, TRUE)
  \/ OpenTab(2, OtherUrl, OtherTitle, FALSE, FALSE, "")
  \/ now < 2 * DayMs /\ Tick(DayMs)
  \/ LoadTabLog(KeysInOrder(DOMAIN tabs))
  \/ \E filter \in Filters : SetFilter(filter)
  \/ \E key \in SortKeys : ClickSort(key)

SpecView == InitLogged /\ [][NextView]_vars

(* a step of the dashboard: a load, a change of the sort or of the filter *)
DashboardStep == tabs' = tabs /\ now' = now

SortOrFilterStep ==
  ui'.currentSort # ui.currentSort \/ ui'.currentFilter # ui.currentFilter

(* C27 as stated: a load, a change of the sort key or direction and a *)
(* change of the filter all leave the stored tabData and settings and *)
(* tabRows as they were                                               *)
C27_ViewLeavesStoresAndRows ==
  [][DashboardStep =>
       /\ storage'.tabData = storage.tabData
       /\ storage'.settings = storage.settings
       /\ dash'.rows = dash.rows]_vars

(* C27: a load, a change of the sort key or direction and a change of   *)
(* the filter leave the stored tabData and settings as they were, and a *)
(* change of the sort or of the filter leaves tabRows as it was; a load *)
(* sets tabRows to the merge of the open tabs and the stored records    *)
C27_ViewLeavesStores ==
  [][DashboardStep =>
       /\ storage'.tabData = storage.tabData
       /\ storage'.settings = storage.settings
       /\ SortOrFilterStep => dash'.rows = dash.rows
       /\ ~SortOrFilterStep =>
            dash'.rows = TabLogRows(storage.tabData,
                                    QueryTabs(KeysInOrder(DOMAIN tabs)),
                                    now)]_vars

(* no filter is set, the sort has been changed, and tabRows holds a *)
(* logged and an unlogged row in an order other than the one the    *)
(* table shows                                                      *)
C27_Witness ==
  /\ ui.currentFilter = <<>>
  /\ ui.currentSort.key # "createdAt"
  /\ Len(dash.rows) = 2
  /\ dash.rows # SortRows(dash.rows, ui.currentSort)

----------------------------------------------------------------------------
(* SpecReset: the options page resets the settings while the alarm of an *)
(* earlier save is registered                                            *)

NextReset ==
  \/ \E h \in AlarmStepHours :
       now + (h * HourMs) <= MaxAlarmDay * DayMs /\ Tick(h * HourMs)
  \/ now = DayMs /\ OpenTab(1, ExampleUrl, ExampleTitle, FALSE, FALSE, "")
  \/ OptionsReset(TRUE)
  \/ \E i \in DOMAIN alarms, fromNow \in BOOLEAN :
       AlarmFires(i, IF FreeSlots = {} THEN 1 ELSE NewSlot,
                  KeysInOrder(DOMAIN tabs), fromNow)
  \/ \E slot \in Slots : PassResume(slot, TRUE, TRUE, TRUE)
  \/ \E slot \in Slots : PassFinish(slot, TRUE)

SpecReset == InitAlarm /\ [][NextReset]_vars

(* an alarm called automaticBackup is registered *)
TimerRegistered == \E i \in DOMAIN alarms : alarms[i].name = AlarmName

(* the reset has completed: its write of the defaults has settled *)
ResetDone == opts.pc = "idle" /\ storage.settings = <<DEFAULT_SETTINGS>>

(* C28: once reset-to-defaults has completed, the settings the background *)
(* acts on are the defaults, no automaticBackup alarm is registered and   *)
(* no alarm fire starts a backup pass                                     *)
C28_ResetTakesEffect ==
  [][/\ ResetDone' =>
          /\ currentSettings' = DEFAULT_SETTINGS
          /\ ~TimerRegistered'
     /\ ResetDone =>
          \A s \in Slots :
            (tasks[s].kind # "alarm" => tasks'[s].kind # "alarm")]_vars

(* the reset leaves the background's settings and the alarms as they are *)
C28_ResetWritesStoreOnly ==
  [][(ResetDone' /\ ~ResetDone) =>
       /\ currentSettings' = currentSettings
       /\ alarms' = alarms]_vars

----------------------------------------------------------------------------
(* SpecEnable: automatic backup is switched on and off by updateSettings *)
(* messages and by saves of the options page                             *)

EnableForms ==
  {AlarmForm({"Fri"}), [AlarmForm({"Fri"}) EXCEPT !.autoBackupEnabled = FALSE]}

EnableSettings == {[autoBackupEnabled |-> TRUE], [autoBackupEnabled |-> FALSE]}

NextEnable ==
  \/ \E settings \in EnableSettings :
       /\ ~Busy /\ opts.pc = "idle"
       /\ currentSettings.autoBackupEnabled # settings.autoBackupEnabled
       /\ MsgUpdateSettings(NewSlot, settings, TRUE)
  \/ \E slot \in Slots : UpdateSettingsStored(slot)
  \/ \E slot \in Slots, accepts \in BOOLEAN : ScheduleCreate(slot, accepts)
  \/ \E slot \in Slots : UpdateSettingsRespond(slot)
  \/ \E form \in EnableForms : ~Busy /\ OptionsSave(form, TRUE)
  \/ ~Busy /\ OptionsSend(NewSlot, TRUE)
  \/ OptionsSchedule(TRUE)
  \/ now < 2 * DayMs /\ Tick(19 * HourMs)

SpecEnable == Init /\ [][NextEnable]_vars

(* no updateSettings message is being handled and no options save runs *)
NoSaveInProgress == ~Busy /\ opts.pc = "idle"

(* an updateSettings message that leaves autoBackupEnabled true is answered *)
EnablingMessageAnswered ==
  \E s \in Slots :
    /\ tasks[s].kind = "updateSettings" /\ tasks[s].pc = "respond"
    /\ tasks'[s].kind = "idle"
    /\ currentSettings.autoBackupEnabled

(* an options save with autoBackupEnabled true completes *)
EnablingSaveCompletes ==
  /\ opts.pc = "answered" /\ opts'.pc = "idle" /\ opts'.status = "success"
  /\ opts.settings[1].autoBackupEnabled

(* C29: while no settings save is in progress an automaticBackup alarm is *)
(* registered only if autoBackupEnabled is true in the settings, and when *)
(* an updateSettings message or an options save that leaves               *)
(* autoBackupEnabled true has completed an alarm is registered            *)
C29_TimerFollowsEnabled ==
  [][/\ (NoSaveInProgress' /\ TimerRegistered')
          => currentSettings'.autoBackupEnabled
     /\ (EnablingMessageAnswered \/ EnablingSaveCompletes)
          => TimerRegistered']_vars

(* the first half alone, for the background's and for the stored settings *)
C29_TimerOnlyIfEnabled ==
  (NoSaveInProgress /\ TimerRegistered) =>
    /\ currentSettings.autoBackupEnabled
    /\ storage.settings[1].autoBackupEnabled

(* the second half for the options save alone *)
C29_TimerAfterOptionsSave ==
  [][EnablingSaveCompletes => TimerRegistered']_vars

----------------------------------------------------------------------------
(* getBackupStatus: the next backup time in the response *)

(* handleMessage answers a getBackupStatus message *)
StatusAnswered ==
  /\ ui.asked = "getBackupStatus"
  /\ response' # response
  /\ response' # NoResponse

(* the scheduled time of the automaticBackup alarm *)
ScheduledTime ==
  alarms[CHOOSE i \in AlarmsNamed(alarms, AlarmName) : TRUE].when

(* C30: the getBackupStatus response is a status, not an error, and its *)
(* nextBackup is the scheduled time of the automaticBackup alarm when   *)
(* automatic backup is enabled and the alarm exists, and null otherwise *)
C30_NextBackupIsAlarmTime ==
  [][StatusAnswered =>
       /\ response'.type = "status"
       /\ response'.nextBackup =
            IF /\ currentSettings.autoBackupEnabled
               /\ AlarmsNamed(alarms, AlarmName) # {}
              THEN ScheduledTime
              ELSE NULL]_vars

(* what the handler answers: a status whose nextBackup is null, or the *)
(* error when automatic backup is enabled and no alarm exists          *)
C30_NextBackupAlwaysNull ==
  [][StatusAnswered =>
       IF /\ currentSettings.autoBackupEnabled
          /\ AlarmsNamed(alarms, AlarmName) = {}
         THEN response' = ErrorResponse
         ELSE /\ response'.type = "status"
              /\ response'.nextBackup = NULL]_vars

----------------------------------------------------------------------------
(* SpecManual: a performBackup message between the fires of the alarm *)

(* the clock stops at the start of this day *)
MaxManualDay == 2

NextManual ==
  \/ \E h \in AlarmStepHours :
       now + (h * HourMs) <= MaxManualDay * DayMs /\ Tick(h * HourMs)
  \/ now = DayMs /\ OpenTab(1, ExampleUrl, ExampleTitle, FALSE, FALSE, "")
  \/ ~Has(tabData, 1) /\ HandleTabUpdate(1, "complete", TRUE)
  \/ \E i \in DOMAIN alarms :
       AlarmFires(i, IF FreeSlots = {} THEN 1 ELSE NewSlot,
                  KeysInOrder(DOMAIN tabs), FALSE)
  \/ /\ ~Busy /\ response.type # "backup"
     /\ MsgPerformBackup(NewSlot, KeysInOrder(DOMAIN tabs))
  \/ \E slot \in Slots, qok \in BOOLEAN : PassResume(slot, qok, TRUE, TRUE)
  \/ \E slot \in Slots : PassFinish(slot, TRUE)

SpecManual == InitAlarm /\ [][NextManual]_vars

(* a step of the handler of a performBackup message *)
ManualBackupStep ==
  \E s \in Slots :
    /\ tasks'[s] # tasks[s]
    /\ tasks[s].kind = "message" \/ tasks'[s].kind = "message"

(* C31: a performBackup message starts a reconciliation pass on every  *)
(* weekday, whatever backupDays and the time since the last automatic  *)
(* backup are, and no step of its handler changes lastAutomaticBackup, *)
(* in memory or stored, or the alarms                                  *)
C31_ManualBackupUngated ==
  /\ []((listening /\ FreeSlots # {}) =>
          ENABLED MsgPerformBackup(NewSlot, KeysInOrder(DOMAIN tabs)))
  /\ [][ManualBackupStep =>
          /\ lastAutomaticBackup' = lastAutomaticBackup
          /\ storage'.lastAutomaticBackup = storage.lastAutomaticBackup
          /\ alarms' = alarms]_vars

(* a manual pass has recorded the open tab on a weekday that is not   *)
(* selected, less than toleranceHours after an automatic backup whose *)
(* time is still the last one                                         *)
C31_Witness ==
  /\ response.type = "backup" /\ response.success /\ response.count = 1
  /\ Today(now) \notin currentSettings.backupDays
  /\ Truthy(lastAutomaticBackup)
  /\ now - lastAutomaticBackup < currentSettings.toleranceHours * HourMs
  /\ storage.lastAutomaticBackup = lastAutomaticBackup
  /\ Has(tabData, 1) /\ tabData[1].lastUpdated = now
  /\ tasks = NoTasks

----------------------------------------------------------------------------
(* SpecFire: fires of the alarm whose pass may fail *)

NextFire ==
  \/ \E h \in AlarmStepHours :
       now + (h * HourMs) <= MaxAlarmDay * DayMs /\ Tick(h * HourMs)
  \/ now = DayMs /\ OpenTab(1, ExampleUrl, ExampleTitle, FALSE, FALSE, "")
  \/ ~Has(tabData, 1) /\ HandleTabUpdate(1, "complete", TRUE)
  \/ \E i \in DOMAIN alarms :
       AlarmFires(i, IF FreeSlots = {} THEN 1 ELSE NewSlot,
                  KeysInOrder(DOMAIN tabs), FALSE)
  \/ \E slot \in Slots, qok, wok \in BOOLEAN :
       PassResume(slot, qok, wok, TRUE)
  \/ \E slot \in Slots : PassFinish(slot, TRUE)

SpecFire == InitAlarm /\ [][NextFire]_vars

(* performBackup returns to handleAlarm in slot s *)
FirePassReturns(s) == tasks[s].kind = "alarm" /\ tasks'[s].kind = "idle"

(* the pass of slot s returns {success: false}: its query was rejected, *)
(* or its write was                                                     *)
FirePassFailed(s) ==
  \/ tasks[s].pc = "query"
  \/ tasks[s].pc = "save" /\ ~tasks[s].ok

(* C32: lastAutomaticBackup, in memory and stored, becomes the time of a *)
(* fire only when the pass of that fire succeeded; a fire whose pass     *)
(* returned a failed result leaves both as they were                     *)
C32_FailedFireNotRecorded ==
  [][\A s \in Slots :
       FirePassReturns(s) =>
         IF FirePassFailed(s)
           THEN /\ lastAutomaticBackup' = lastAutomaticBackup
                /\ storage'.lastAutomaticBackup = storage.lastAutomaticBackup
           ELSE /\ lastAutomaticBackup' = tasks[s].now
                /\ storage'.lastAutomaticBackup = tasks[s].now]_vars

(* what handleAlarm does: the time of the fire is recorded whatever the *)
(* pass returned                                                        *)
C32_EveryFireRecorded ==
  [][\A s \in Slots :
       FirePassReturns(s) =>
         /\ lastAutomaticBackup' = tasks[s].now
         /\ storage'.lastAutomaticBackup = tasks[s].now]_vars

----------------------------------------------------------------------------
(* SpecClose: tabs close while a pass is suspended at tabs.query *)

NextClose ==
  \/ OpenTab(1, ExampleUrl, ExampleTitle, FALSE, FALSE, "")
  \/ OpenTab(2, OtherUrl, OtherTitle, FALSE, FALSE, "")
  \/ \E id \in TabIds : HandleTabUpdate(id, "complete", TRUE)
  \/ \E id \in TabIds : HandleTabRemoved(id, TRUE)
  \/ /\ ~Busy /\ currentSettings.minDays # 0
     /\ MsgUpdateSettings(NewSlot, [minDays |-> 0], TRUE)
  \/ \E slot \in Slots : UpdateSettingsStored(slot)
  \/ \E slot \in Slots : UpdateSettingsRespond(slot)
  \/ ~Busy /\ MsgPerformBackup(NewSlot, KeysInOrder(DOMAIN tabs))
  \/ \E slot \in Slots : PassResume(slot, TRUE, TRUE, TRUE)
  \/ \E slot \in Slots : PassFinish(slot, TRUE)

SpecClose == Init /\ [][NextClose]_vars

(* C33: when no handler of the background is in progress, the stored *)
(* tabData has no record under the identifier of a tab that is not   *)
(* open, also when the tab closed while a pass or a tracker update   *)
(* for it was suspended at a host call                               *)
C33_ClosedTabHasNoRecord ==
  ~Busy => \A id \in TabIds : ~Has(tabs, id) => ~Has(storage.tabData, id)

(* the same at the close itself: the handler of tabs.onRemoved leaves no *)
(* record of the tab in the stored tabData                               *)
C33_CloseDeletesRecord ==
  [][\A id \in TabIds :
       TabRemovedStep(id) => ~Has(storage'.tabData, id)]_vars

----------------------------------------------------------------------------
(* SpecOrphan: the browser restarts and a new tab gets the identifier of *)
(* a record of the earlier session                                       *)

(* The browser starts again: the tabs of the earlier session are gone, *)
(* the script is evaluated afresh and both initialize() calls have run *)
(* to their first await; the store is kept                             *)
BrowserRestart ==
  /\ listening
  /\ ~Busy
  /\ tabs' = EmptyObj
  /\ currentSettings' = DEFAULT_SETTINGS
  /\ tabData' = EmptyObj
  /\ lastAutomaticBackup' = NULL
  /\ alarms' = <<>>
  /\ tasks' = [s \in Slots |->
                 IF s <= 2
                   THEN TaskOf("init", "loadSettings", "script",
                               storage.settings)
                   ELSE Idle]
  /\ listening' = FALSE
  /\ UNCHANGED <<now, storage, response, dash, opts, removed, ui>>

NextOrphan ==
  \/ \E url \in RowUrls : OpenTab(1, url, ExampleTitle, FALSE, FALSE, "")
  \/ Tick(DEFAULT_SETTINGS.minDays * DayMs)
  \/ HandleTabUpdate(1, "complete", TRUE)
  \/ storage.tabData # EmptyObj /\ BrowserRestart
  \/ \E slot \in Slots : InitializeSettings(slot, TRUE)
  \/ \E slot \in Slots : InitializeTabData(slot, TRUE)
  \/ ~Busy /\ MsgPerformBackup(NewSlot, KeysInOrder(DOMAIN tabs))
  \/ \E slot \in Slots : PassResume(slot, TRUE, TRUE, TRUE)
  \/ \E slot \in Slots : PassFinish(slot, TRUE)

SpecOrphan == Init /\ [][NextOrphan]_vars

(* the record under the tab's identifier was made before the tab was *)
(* opened: it is the record of a tab of an earlier session           *)
Orphaned(td, tab) ==
  Has(td, tab.id) /\ td[tab.id].createdAt < tab.createdAt

(* the loop of a pass runs in slot s *)
PassLoopRuns(s) == tasks[s].pc = "query" /\ tasks'[s].pc = "save"

(* C35: a pass leaves a record of an earlier session as it is when a tab *)
(* of the new session has its identifier: the tab is not taken as old    *)
(* because of the record, and the record's URL is not overwritten        *)
C35_OrphanKept ==
  [][\A s \in Slots :
       PassLoopRuns(s) =>
         \A i \in DOMAIN tasks[s].snap :
           Orphaned(tabData, tasks[s].snap[i]) =>
             tabData'[tasks[s].snap[i].id] = tabData[tasks[s].snap[i].id]]_vars

(* what the pass does: the new tab takes over the record with its URL, *)
(* and the record keeps the opening time of the earlier tab            *)
C35_OrphanTakenOver ==
  [][\A s \in Slots :
       PassLoopRuns(s) =>
         \A i \in DOMAIN tasks[s].snap :
           (/\ Orphaned(tabData, tasks[s].snap[i])
            /\ now - tabData[tasks[s].snap[i].id].createdAt
                 >= currentSettings.minDays * DayMs) =>
             /\ tabData'[tasks[s].snap[i].id].url = tasks[s].snap[i].url
             /\ tabData'[tasks[s].snap[i].id].createdAt
                  = tabData[tasks[s].snap[i].id].createdAt]_vars

----------------------------------------------------------------------------
(* The defaults of the three readers of the settings *)

(* C36: the background, the options page and the dashboard merge the   *)
(* stored settings under the same defaults, so with no stored settings *)
(* the minDays that the dashboard's getSettings gives is the minDays   *)
(* of the background and of the options form                           *)
C36_SameDefaults ==
  /\ (BackgroundLoaded /\ ui.settings # <<>> /\ storage.settings = <<>>)
       => ui.settings[1].minDays = currentSettings.minDays
  /\ (ui.form # <<>> /\ ui.settings # <<>> /\ storage.settings = <<>>)
       => ui.settings[1].minDays = ui.form[1].minDays

(* the same for the background and the options page alone, whatever the *)
(* store holds                                                          *)
C36_BackgroundAndOptionsAgree ==
  (BackgroundLoaded /\ ui.form # <<>>) => ui.form[1] = currentSettings

====
